---- MODULE Spec2Model ----
(***************************************************************************)
(* docker-hub-cleaner: the Docker Hub API client (internal/api), the       *)
(* filter / sorter / policy pipeline and the Cleaner orchestrator          *)
(* (internal/cleaner), as a state machine.                                 *)
(*                                                                         *)
(* Under Spec one behaviour is one use of one api.Client: the caller        *)
(* performs one of Authenticate, AuthenticateWithToken, GetRepository or  *)
(* Cleaner.Clean.  Every HTTP exchange (httpClient.Do) is one step whose   *)
(* outcome the registry chooses; the calling context may be cancelled at   *)
(* any moment.  Under RunSpec one behaviour is one run of the command      *)
(* (run, cmd/docker-hub-cleaner), and under LibSpec one application of a   *)
(* policy, a filter, a sorter or the client's limiter to inputs drawn from *)
(* bounded sets.                                                           *)
(***************************************************************************)
EXTENDS Integers, Sequences, FiniteSets, TLC

VARIABLES
    cfg,         \* the Cleaner's fields: filter, policy, sorter, dryRun
    now,         \* time.Now(), in days
    ctxDone,     \* the context handed to the client has been cancelled
    token,       \* Client.token
    pc,          \* where the caller is: "new", "auth", "repo", "list",
                 \*   "classify", "delete", "done"
    op,          \* the client method in progress ("none" when there is none)
    dr,          \* doRequest's position: stage, retry index i, return values
    resps,       \* what httpClient.Do returned so far in this doRequest call
    sleeps,      \* the time.Sleep durations (seconds) of this doRequest call
    page,        \* ListTags: page
    allTags,     \* ListTags: allTags
    pageReqs,    \* the page numbers the last ListTags call has requested, in
                 \*   order (kept until the client's next method call)
    tags,        \* Clean: tags (after filter and sort)
    idx,         \* Clean: index of the next tag to classify / to delete
    tagsToKeep,  \* Clean: tagsToKeep
    tagsToDelete,\* Clean: tagsToDelete
    result,      \* Clean: *result
    pagesGot,    \* the pages that ListTags call has decoded, in order
    listRet,     \* what ListTags returned to its caller
    deleteCalls, \* the tag names DeleteTag was called with, in order
    deleteRets,  \* what those DeleteTag calls returned, in order
    ret,         \* what the caller's operation returned
    permits,     \* the limiter permits this doRequest call has acquired
    everSent,    \* httpClient.Do has been called through this client
    run,         \* run (the command): its flags, its position, its filter,
                 \*   sorter and sortedTags, its error
    call,        \* a library function applied on its own: which, its inputs
    out          \* what that function returned

vars == <<cfg, now, ctxDone, token, pc, op, dr, resps, sleeps, page, allTags,
          pageReqs, pagesGot, tags, idx, tagsToKeep, tagsToDelete, result,
          listRet, deleteCalls, deleteRets, ret, permits, everSent, run, call,
          out>>

(***************************************************************************)
(* Bounds of the model.                                                    *)
(***************************************************************************)
\* ListTags is followed through its first MaxPages pages: when page MaxPages
\* carries a next-page marker too, ListTags goes on to the request for the
\* page after it, which the model does not follow.
MaxPages == 2
\* The registry puts at most MaxPageLen tags on one page.
MaxPageLen == 2
\* A count policy on its own is built with a count of at most MaxCount from a
\* list of at most MaxSorted tags.
MaxCount == 4
MaxSorted == 3
\* A days policy on its own has at most MaxDays days.
MaxDays == 3
\* A composite policy on its own has at most MaxSubPolicies policies, a
\* composite filter on its own at most MaxMembers filters.
MaxSubPolicies == 2
MaxMembers == 2
\* A sorter on its own is given at most MaxSortLen tags.
MaxSortLen == 3
\* A limiter on its own is waited on at most MaxWaits times.
MaxWaits == 8

(***************************************************************************)
(* Program constants.                                                      *)
(***************************************************************************)
DefaultPageSize == 100
MaxRetries == 5
StatusOK == 200
StatusNoContent == 204
StatusUnauthorized == 401
StatusNotFound == 404
StatusTooManyRequests == 429

(***************************************************************************)
(* Tags.  A name is the sequence of its bytes, so that Go's string         *)
(* comparison is computed, not assumed.  Times are in days since           *)
(* 2020-01-01 (2024-06-01 is day 1613, 2024-06-10 is day 1622).            *)
(***************************************************************************)
NameA == <<65>>
NameB == <<66>>
NameC == <<67>>

Tag(name, lastUpdated, fullSize) ==
    [Name |-> name, LastUpdated |-> lastUpdated, FullSize |-> fullSize]

TagA == Tag(NameA, 1613, 100)
TagB == Tag(NameB, 0, 200)
TagC == Tag(NameC, 0, 300)

\* The tags of the repository on the registry.
RepoTags == {TagA, TagB, TagC}
Names == {t.Name : t \in RepoTags}

NowValues == {1622}

(***************************************************************************)
(* Sequence helpers.                                                       *)
(***************************************************************************)
Range(s) == {s[i] : i \in 1..Len(s)}

Min(a, b) == IF a < b THEN a ELSE b

Last(s) == s[Len(s)]

RECURSIVE SumSizes(_)
SumSizes(s) == IF s = <<>> THEN 0 ELSE Head(s).FullSize + SumSizes(Tail(s))

NamesOf(s) == [i \in 1..Len(s) |-> s[i].Name]

\* The sequences of at most n distinct elements of S.
DistinctSeqs(S, n) ==
    UNION {{s \in [1..k -> S] : \A i, j \in 1..k : i # j => s[i] # s[j]} : k \in 0..n}

\* The rearrangements of s.
Rearrangements(s) ==
    {[i \in 1..Len(s) |-> s[f[i]]] :
        f \in {g \in [1..Len(s) -> 1..Len(s)] :
                  \A i, j \in 1..Len(s) : i # j => g[i] # g[j]}}

\* Go's s < t on strings: bytewise lexicographic.
RECURSIVE StrLess(_, _)
StrLess(s, t) ==
    IF t = <<>> THEN FALSE
    ELSE IF s = <<>> THEN TRUE
    ELSE IF s[1] # t[1] THEN s[1] < t[1]
    ELSE StrLess(Tail(s), Tail(t))

(***************************************************************************)
(* Errors (internal/api/errors.go).  An error is a record; a wrapped error *)
(* keeps the error it wraps.                                               *)
(***************************************************************************)
NoErr == [kind |-> "nil"]
ErrUnauthorized == [kind |-> "Unauthorized"]
ErrNotFound == [kind |-> "NotFound"]
ErrRateLimited == [kind |-> "RateLimited"]
ErrNetworkError == [kind |-> "NetworkError"]
ErrInvalidResponse == [kind |-> "InvalidResponse"]

NewAPIError(statusCode, endpoint, message) ==
    [kind |-> "APIError", StatusCode |-> statusCode, Endpoint |-> endpoint,
     Message |-> message]

\* fmt.Errorf("<msg>: %w", err)
Wrap(msg, err) == [kind |-> "wrapped", msg |-> msg, err |-> err]
\* fmt.Errorf("failed to delete tag %s: %w", name, err)
WrapTag(msg, name, err) == [kind |-> "wrapped", msg |-> msg, tag |-> name, err |-> err]
\* An error made by fmt.Errorf around a decoder's error, which is none of the
\* package's error values.
DecodeError(msg) == [kind |-> "wrapped", msg |-> msg, err |-> [kind |-> "json"]]

\* errors.Is(e, target) for the package's sentinel errors.
RECURSIVE ErrorsIs(_, _)
ErrorsIs(e, target) ==
    IF e = target THEN TRUE
    ELSE IF e.kind = "wrapped" THEN ErrorsIs(e.err, target)
    ELSE FALSE

(***************************************************************************)
(* Filters (internal/filter).  A compiled pattern is the set of names it   *)
(* matches.                                                                *)
(***************************************************************************)
NilFilter == [kind |-> "nil"]
RegexFilter(matched, invert) == [kind |-> "regex", pattern |-> matched, invert |-> invert]
CompositeFilter(filters) == [kind |-> "composite", filters |-> filters]
AlwaysMatchFilter == [kind |-> "always"]

\* Faulty variant of Matches: a composite filter matches when some member does.
RECURSIVE MatchesAnyMember(_, _)
MatchesAnyMember(f, name) ==
    CASE f.kind = "regex" ->
            LET matches == name \in f.pattern
            IN  IF f.invert THEN ~matches ELSE matches
      [] f.kind = "composite" ->
            \E i \in 1..Len(f.filters) : MatchesAnyMember(f.filters[i], name)
      [] f.kind = "always" -> TRUE

RECURSIVE Matches(_, _)
Matches(f, name) ==
    CASE f.kind = "regex" ->
            LET matches == name \in f.pattern
            IN  IF f.invert THEN ~matches ELSE matches
      [] f.kind = "composite" ->
            \A i \in 1..Len(f.filters) : Matches(f.filters[i], name)
      [] f.kind = "always" -> TRUE

FilterTags(ts, f) ==
    IF f = NilFilter THEN ts
    ELSE SelectSeq(ts, LAMBDA t : Matches(f, t.Name))

(***************************************************************************)
(* Sorters (internal/sort).  sort.Slice is not a stable sort: it returns   *)
(* some rearrangement in which no element is less than one before it.      *)
(***************************************************************************)
NilSorter == [kind |-> "nil"]
LexicographicalSorter == [kind |-> "lexicographical"]

\* less(i, j) of LexicographicalSorter.Sort: sorted[i].Name > sorted[j].Name
LexLess(a, b) == StrLess(b.Name, a.Name)

(***************************************************************************)
(* golang.org/x/mod/semver, as SemverSorter uses it: IsValid and Compare   *)
(* on byte strings.  A version is "v" MAJOR [ "." MINOR [ "." PATCH        *)
(* [ "-" PRERELEASE ] [ "+" BUILD ] ] ]; numbers have no leading zero.     *)
(***************************************************************************)
IsDigit(c) == c \in 48..57
\* isIdentChar: A-Z, a-z, 0-9 or "-"
IsIdentChar(c) == c \in 65..90 \/ c \in 97..122 \/ IsDigit(c) \/ c = 45
IsDot(c) == c = 46

Drop(v, n) == SubSeq(v, n + 1, Len(v))
HasPrefix(v, pre) == Len(pre) <= Len(v) /\ SubSeq(v, 1, Len(pre)) = pre

\* The length of the longest prefix of v whose bytes all satisfy the test.
RECURSIVE DigitRun(_)
DigitRun(v) == IF v = <<>> \/ ~IsDigit(v[1]) THEN 0 ELSE 1 + DigitRun(Tail(v))

\* The index of the first byte c of v, Len(v) + 1 when there is none.
RECURSIVE IndexOf(_, _)
IndexOf(v, c) == IF v = <<>> \/ v[1] = c THEN 1 ELSE 1 + IndexOf(Tail(v), c)

\* The dot-separated pieces of v.
RECURSIVE SplitDot(_)
SplitDot(v) ==
    LET i == IndexOf(v, 46)
    IN  IF i > Len(v) THEN <<v>>
        ELSE <<SubSeq(v, 1, i - 1)>> \o SplitDot(Drop(v, i))

\* isNum: every byte is a digit;  isBadNum: a number with a leading zero
IsNum(v) == DigitRun(v) = Len(v)
IsBadNum(v) == IsNum(v) /\ Len(v) > 1 /\ v[1] = 48

ParseFail == [ok |-> FALSE, t |-> <<>>, rest |-> <<>>]

\* parseInt
ParseInt(v) ==
    IF v = <<>> \/ ~IsDigit(v[1]) THEN ParseFail
    ELSE LET i == DigitRun(v)
         IN  IF v[1] = 48 /\ i # 1 THEN ParseFail
             ELSE [ok |-> TRUE, t |-> SubSeq(v, 1, i), rest |-> Drop(v, i)]

\* parsePrerelease: "-" and dot-separated identifiers, up to a "+"
ParsePrerelease(v) ==
    IF v = <<>> \/ v[1] # 45 THEN ParseFail
    ELSE LET i == Min(IndexOf(v, 43), Len(v) + 1)
             ids == SplitDot(SubSeq(v, 2, i - 1))
         IN  IF /\ \A k \in 2..(i - 1) : IsIdentChar(v[k]) \/ IsDot(v[k])
                /\ \A k \in 1..Len(ids) : ids[k] # <<>> /\ ~IsBadNum(ids[k])
             THEN [ok |-> TRUE, t |-> SubSeq(v, 1, i - 1), rest |-> Drop(v, i - 1)]
             ELSE ParseFail

\* parseBuild: "+" and dot-separated identifiers, to the end
ParseBuild(v) ==
    IF v = <<>> \/ v[1] # 43 THEN ParseFail
    ELSE LET ids == SplitDot(Drop(v, 1))
         IN  IF /\ \A k \in 2..Len(v) : IsIdentChar(v[k]) \/ IsDot(v[k])
                /\ \A k \in 1..Len(ids) : ids[k] # <<>>
             THEN [ok |-> TRUE, t |-> v, rest |-> <<>>]
             ELSE ParseFail

NotAVersion ==
    [ok |-> FALSE, major |-> <<>>, minor |-> <<>>, patch |-> <<>>, prerelease |-> <<>>]
Version(major, minor, patch, prerelease) ==
    [ok |-> TRUE, major |-> major, minor |-> minor, patch |-> patch,
     prerelease |-> prerelease]

\* What follows the patch number: an optional pre-release, an optional build.
ParseTail(major, minor, patch, v) ==
    LET pre == IF v # <<>> /\ v[1] = 45 THEN ParsePrerelease(v)
               ELSE [ok |-> TRUE, t |-> <<>>, rest |-> v]
        bld == IF pre.ok /\ pre.rest # <<>> /\ pre.rest[1] = 43
               THEN ParseBuild(pre.rest)
               ELSE [ok |-> TRUE, t |-> <<>>, rest |-> pre.rest]
    IN  IF pre.ok /\ bld.ok /\ bld.rest = <<>>
        THEN Version(major, minor, patch, pre.t)
        ELSE NotAVersion

\* parse
SemverParse(v) ==
    IF v = <<>> \/ v[1] # 118 THEN NotAVersion
    ELSE LET ma == ParseInt(Drop(v, 1))
         IN  IF ~ma.ok THEN NotAVersion
             ELSE IF ma.rest = <<>> THEN Version(ma.t, <<48>>, <<48>>, <<>>)
             ELSE IF ~IsDot(ma.rest[1]) THEN NotAVersion
             ELSE LET mi == ParseInt(Drop(ma.rest, 1))
                  IN  IF ~mi.ok THEN NotAVersion
                      ELSE IF mi.rest = <<>> THEN Version(ma.t, mi.t, <<48>>, <<>>)
                      ELSE IF ~IsDot(mi.rest[1]) THEN NotAVersion
                      ELSE LET pa == ParseInt(Drop(mi.rest, 1))
                           IN  IF ~pa.ok THEN NotAVersion
                               ELSE ParseTail(ma.t, mi.t, pa.t, pa.rest)

\* semver.IsValid
SemverIsValid(v) == SemverParse(v).ok

\* compareInt: numbers without leading zeros, by length and then bytewise
CompareInt(x, y) ==
    IF x = y THEN 0
    ELSE IF Len(x) < Len(y) THEN -1
    ELSE IF Len(x) > Len(y) THEN 1
    ELSE IF StrLess(x, y) THEN -1 ELSE 1

\* comparePrerelease on the identifiers still to compare
RECURSIVE CompareIdents(_, _)
CompareIdents(xs, ys) ==
    IF xs = <<>> /\ ys = <<>> THEN 0
    ELSE IF xs = <<>> THEN -1
    ELSE IF ys = <<>> THEN 1
    ELSE LET dx == Head(xs)
             dy == Head(ys)
         IN  IF dx = dy THEN CompareIdents(Tail(xs), Tail(ys))
             ELSE IF IsNum(dx) # IsNum(dy) THEN (IF IsNum(dx) THEN -1 ELSE 1)
             ELSE IF IsNum(dx) /\ Len(dx) < Len(dy) THEN -1
             ELSE IF IsNum(dx) /\ Len(dx) > Len(dy) THEN 1
             ELSE IF StrLess(dx, dy) THEN -1 ELSE 1

\* comparePrerelease: a version without pre-release is the greater one
ComparePrerelease(x, y) ==
    IF x = y THEN 0
    ELSE IF x = <<>> THEN 1
    ELSE IF y = <<>> THEN -1
    ELSE CompareIdents(SplitDot(Drop(x, 1)), SplitDot(Drop(y, 1)))

\* semver.Compare
SemverCompare(v, w) ==
    LET pv == SemverParse(v)
        pw == SemverParse(w)
    IN  IF ~pv.ok /\ ~pw.ok THEN 0
        ELSE IF ~pv.ok THEN -1
        ELSE IF ~pw.ok THEN 1
        ELSE IF CompareInt(pv.major, pw.major) # 0 THEN CompareInt(pv.major, pw.major)
        ELSE IF CompareInt(pv.minor, pw.minor) # 0 THEN CompareInt(pv.minor, pw.minor)
        ELSE IF CompareInt(pv.patch, pw.patch) # 0 THEN CompareInt(pv.patch, pw.patch)
        ELSE ComparePrerelease(pv.prerelease, pw.prerelease)

(***************************************************************************)
(* SemverSorter (internal/sort).  The strip-prefix pattern is nil or a     *)
(* pattern "^literal", which matches the literal at the start of a name.   *)
(***************************************************************************)
NilPattern == [set |-> FALSE, prefix |-> <<>>]
PrefixPattern(literal) == [set |-> TRUE, prefix |-> literal]
SemverSorter(stripPrefixPattern) ==
    [kind |-> "semver", stripPrefixPattern |-> stripPrefixPattern]

\* s.stripPrefix(v): ReplaceAllString(v, "") when the pattern is set
StripPrefix(sorter, v) ==
    IF sorter.stripPrefixPattern.set /\ HasPrefix(v, sorter.stripPrefixPattern.prefix)
    THEN Drop(v, Len(sorter.stripPrefixPattern.prefix))
    ELSE v

\* normalizeVersion: adds "v" when it is missing
NormalizeVersion(v) == IF HasPrefix(v, <<118>>) THEN v ELSE <<118>> \o v

\* Faulty variant of SemverLess: the names are compared without being
\* normalized.
SemverLessRawNames(sorter, a, b) ==
    SemverCompare(StripPrefix(sorter, a.Name), StripPrefix(sorter, b.Name)) > 0

\* less(i, j) of the first sort.Slice of SemverSorter.Sort
SemverLess(sorter, a, b) ==
    SemverCompare(NormalizeVersion(StripPrefix(sorter, a.Name)),
                  NormalizeVersion(StripPrefix(sorter, b.Name))) > 0

\* The first loop of SemverSorter.Sort: the tags of ts that are (valid = TRUE)
\* or are not (valid = FALSE) versions, in the order of ts.
RECURSIVE SemverGroup(_, _, _)
SemverGroup(sorter, ts, valid) ==
    IF ts = <<>> THEN <<>>
    ELSE IF SemverIsValid(NormalizeVersion(StripPrefix(sorter, Head(ts).Name))) = valid
         THEN <<Head(ts)>> \o SemverGroup(sorter, Tail(ts), valid)
    ELSE SemverGroup(sorter, Tail(ts), valid)

\* The results sorter.Sort(ts) can have.
SortResults(sorter, ts) ==
    CASE sorter.kind = "lexicographical" ->
            {p \in Rearrangements(ts) :
                \A i, j \in 1..Len(p) : i < j => ~LexLess(p[j], p[i])}
      [] sorter.kind = "semver" ->
            {sv \o ns :
                sv \in {p \in Rearrangements(SemverGroup(sorter, ts, TRUE)) :
                           \A i, j \in 1..Len(p) : i < j => ~SemverLess(sorter, p[j], p[i])},
                ns \in {p \in Rearrangements(SemverGroup(sorter, ts, FALSE)) :
                           \A i, j \in 1..Len(p) : i < j => ~LexLess(p[j], p[i])}}

(***************************************************************************)
(* Retention policies (internal/policy).                                   *)
(***************************************************************************)
NilPolicy == [kind |-> "nil"]
PolicyModeOR == 0
PolicyModeAND == 1

\* Faulty variant of NewCountRetentionPolicy: the keep-set is taken from the
\* end of the list.
NewCountRetentionPolicyLastN(count, sorted) ==
    [kind |-> "count",
     keepSet |-> {sorted[i].Name :
                    i \in (Len(sorted) - Min(count, Len(sorted)) + 1)..Len(sorted)}]

NewCountRetentionPolicy(count, sorted) ==
    [kind |-> "count",
     keepSet |-> {sorted[i].Name : i \in 1..Min(count, Len(sorted))}]
NewDaysRetentionPolicy(days) == [kind |-> "days", days |-> days]
NewCompositePolicy(mode, policies) ==
    [kind |-> "composite", mode |-> mode, policies |-> policies]

\* Faulty variant of ShouldKeep: a tag updated at the cutoff instant is kept.
RECURSIVE ShouldKeepAtCutoff(_, _, _)
ShouldKeepAtCutoff(p, tag, t) ==
    CASE p.kind = "count" -> tag.Name \in p.keepSet
      [] p.kind = "days" ->
            LET cutoff == t - p.days
            IN  tag.LastUpdated >= cutoff
      [] p.kind = "composite" ->
            IF Len(p.policies) = 0 THEN TRUE
            ELSE IF p.mode = PolicyModeOR
                 THEN \E i \in 1..Len(p.policies) : ShouldKeepAtCutoff(p.policies[i], tag, t)
            ELSE IF p.mode = PolicyModeAND
                 THEN \A i \in 1..Len(p.policies) : ShouldKeepAtCutoff(p.policies[i], tag, t)
            ELSE FALSE

\* Faulty variant of ShouldKeep: a composite without policies is decided by
\* its mode like any other.
RECURSIVE ShouldKeepEmptyByMode(_, _, _)
ShouldKeepEmptyByMode(p, tag, t) ==
    CASE p.kind = "count" -> tag.Name \in p.keepSet
      [] p.kind = "days" ->
            LET cutoff == t - p.days
            IN  tag.LastUpdated > cutoff
      [] p.kind = "composite" ->
            IF p.mode = PolicyModeOR
            THEN \E i \in 1..Len(p.policies) : ShouldKeepEmptyByMode(p.policies[i], tag, t)
            ELSE IF p.mode = PolicyModeAND
                 THEN \A i \in 1..Len(p.policies) : ShouldKeepEmptyByMode(p.policies[i], tag, t)
            ELSE FALSE

\* Faulty variant of ShouldKeep: a composite in OR mode asks for every
\* sub-policy, one in AND mode for some.
RECURSIVE ShouldKeepModesSwapped(_, _, _)
ShouldKeepModesSwapped(p, tag, t) ==
    CASE p.kind = "count" -> tag.Name \in p.keepSet
      [] p.kind = "days" ->
            LET cutoff == t - p.days
            IN  tag.LastUpdated > cutoff
      [] p.kind = "composite" ->
            IF Len(p.policies) = 0 THEN TRUE
            ELSE IF p.mode = PolicyModeOR
                 THEN \A i \in 1..Len(p.policies) : ShouldKeepModesSwapped(p.policies[i], tag, t)
            ELSE IF p.mode = PolicyModeAND
                 THEN \E i \in 1..Len(p.policies) : ShouldKeepModesSwapped(p.policies[i], tag, t)
            ELSE FALSE

\* policy.ShouldKeep(tag), called when time.Now() is t.
RECURSIVE ShouldKeep(_, _, _)
ShouldKeep(p, tag, t) ==
    CASE p.kind = "count" -> tag.Name \in p.keepSet
      [] p.kind = "days" ->
            LET cutoff == t - p.days
            IN  tag.LastUpdated > cutoff
      [] p.kind = "composite" ->
            IF Len(p.policies) = 0 THEN TRUE
            ELSE IF p.mode = PolicyModeOR
                 THEN \E i \in 1..Len(p.policies) : ShouldKeep(p.policies[i], tag, t)
            ELSE IF p.mode = PolicyModeAND
                 THEN \A i \in 1..Len(p.policies) : ShouldKeep(p.policies[i], tag, t)
            ELSE FALSE

(***************************************************************************)
(* The limiter of the client (golang.org/x/time/rate, as NewClient builds  *)
(* it): a bucket of burst tokens, full at first, refilled at limit tokens  *)
(* per second.  Times are in milliseconds, tokens in thousandths.          *)
(***************************************************************************)
\* time.Second, in milliseconds
Second == 1000

\* rate.Every(interval): one event per interval, as events per second
Every(interval) == Second \div interval

\* rate.NewLimiter(r, b)
NewLimiter(r, b) == [limit |-> r, burst |-> b, tokens |-> b * 1000, last |-> 0]

\* The limiter of NewClient.
ClientLimiter == NewLimiter(Every(Second), 5)

\* lim.Wait(ctx) called at time t with a context that is not cancelled: the
\* bucket is refilled for the time since the last call, one token is taken
\* (the bucket may go into debt), and Wait returns at timeToAct, when the debt
\* is refilled.
Reserve(lim, t) ==
    LET refilled == Min(lim.burst * 1000, lim.tokens + (t - lim.last) * lim.limit)
        left == refilled - 1000
        wait == IF left < 0 THEN ((0 - left) + lim.limit - 1) \div lim.limit ELSE 0
    IN  [lim |-> [lim EXCEPT !.tokens = left, !.last = t], timeToAct |-> t + wait]

(***************************************************************************)
(* The registry: what one HTTP exchange can give.                          *)
(***************************************************************************)
Statuses == {StatusOK, StatusNoContent, StatusUnauthorized, StatusNotFound,
             StatusTooManyRequests, 500}

\* (resp, err) of httpClient.Do: a response with a status code, or an error.
NoResp == [failed |-> FALSE, StatusCode |-> 0]
Response(status) == [failed |-> FALSE, StatusCode |-> status]
ConnFailure == [failed |-> TRUE, StatusCode |-> 0]

\* A request made with a cancelled context fails without a response.
DoOutcomes(cancelled) ==
    IF cancelled THEN {ConnFailure}
    ELSE {ConnFailure} \cup {Response(s) : s \in Statuses}

\* The body the registry sends with an error status.
ErrorBody(status) == <<"body of", status>>

\* The bodies of a 200 answer to a tags request for page p, when acc has been
\* listed already: undecodable, or a TagsResponse.  A *string is a sequence of
\* no (nil) or one string.  Any page can carry a next-page marker; the marker
\* of a page after the first points back to page 1.
Malformed == [malformed |-> TRUE]
NextMarkers(p) == {<<>>, <<"">>, IF p = 1 THEN <<"next">> ELSE <<"page=1">>}
TagsBodies(p, acc) ==
    {Malformed} \cup
    {[malformed |-> FALSE, Results |-> rs, Next |-> nx] :
        rs \in DistinctSeqs(RepoTags \ Range(acc), MaxPageLen), nx \in NextMarkers(p)}

\* The bodies a client method can read from what doRequest returned: a body is
\* read from a response only, and the bodies of error statuses are ErrorBody.
BodiesOf(d, bodies) ==
    IF d.err = NoErr /\ d.resp.StatusCode = StatusOK THEN bodies ELSE {Malformed}

LoginBodies == {Malformed, [malformed |-> FALSE, Token |-> "jwt"]}
RepositoryBodies ==
    {Malformed,
     [malformed |-> FALSE, User |-> "u", Name |-> "r", Namespace |-> "u", Description |-> "d"]}

\* The endpoints.
LoginEndpoint == [path |-> "/users/login/"]
TagsURL(p) == [path |-> "/repositories/%s/tags/", page |-> p, page_size |-> DefaultPageSize]
TagURL(name) == [path |-> "/repositories/%s/tags/%s/", tag |-> name]
RepositoryURL == [path |-> "/repositories/%s/"]

(***************************************************************************)
(* Client.doRequest (internal/api/client.go).                              *)
(***************************************************************************)
DrIdle == [stage |-> "idle", i |-> 0, resp |-> NoResp, err |-> NoErr]
DrBegin == [stage |-> "wait", i |-> 0, resp |-> NoResp, err |-> NoErr]
DrReturn(resp, err) == [stage |-> "ret", i |-> 0, resp |-> resp, err |-> err]

\* 1<<uint(i)
RECURSIVE Shl1(_)
Shl1(i) == IF i = 0 THEN 1 ELSE 2 * Shl1(i - 1)

\* Faulty variant of BackoffWait: the delay grows by one second per round.
BackoffWaitLinear(i) == i + 1

\* wait := time.Duration(1<<uint(i)) * time.Second, in seconds
BackoffWait(i) == Shl1(i)

\* Faulty variant of AfterLimiterWait: the error of limiter.Wait is dropped.
AfterLimiterWaitIgnoringErr(cancelled) == [DrBegin EXCEPT !.stage = "do"]

\* c.limiter.Wait(req.Context()) and what follows it.
AfterLimiterWait(cancelled) ==
    IF cancelled
    THEN DrReturn(NoResp, Wrap("rate limiter error", [kind |-> "context"]))
    ELSE [DrBegin EXCEPT !.stage = "do"]

\* What follows the first c.httpClient.Do(req).
AfterFirstDo(o) ==
    IF o.failed THEN DrReturn(NoResp, Wrap("network error", ErrNetworkError))
    ELSE IF o.StatusCode = StatusTooManyRequests
         THEN [stage |-> "sleep", i |-> 0, resp |-> NoResp, err |-> NoErr]
    ELSE DrReturn(o, NoErr)

\* Faulty variant of AfterRetryDo: the loop bound is off by one, so a sixth
\* retry is sent.
AfterRetryDoSixRetries(i, o) ==
    IF o.failed THEN DrReturn(NoResp, Wrap("network error", ErrNetworkError))
    ELSE IF o.StatusCode # StatusTooManyRequests THEN DrReturn(o, NoErr)
    ELSE IF i + 1 <= MaxRetries
         THEN [stage |-> "sleep", i |-> i + 1, resp |-> NoResp, err |-> NoErr]
    ELSE DrReturn(NoResp, ErrRateLimited)

\* Faulty variant of AfterRetryDo: a failed retry is retried like a 429.
AfterRetryDoRetryingFailures(i, o) ==
    IF ~o.failed /\ o.StatusCode # StatusTooManyRequests THEN DrReturn(o, NoErr)
    ELSE IF i + 1 < MaxRetries
         THEN [stage |-> "sleep", i |-> i + 1, resp |-> NoResp, err |-> NoErr]
    ELSE IF o.failed THEN DrReturn(NoResp, Wrap("network error", ErrNetworkError))
    ELSE DrReturn(NoResp, ErrRateLimited)

\* What follows c.httpClient.Do(req) in round i of the retry loop.
AfterRetryDo(i, o) ==
    IF o.failed THEN DrReturn(NoResp, Wrap("network error", ErrNetworkError))
    ELSE IF o.StatusCode # StatusTooManyRequests THEN DrReturn(o, NoErr)
    ELSE IF i + 1 < MaxRetries
         THEN [stage |-> "sleep", i |-> i + 1, resp |-> NoResp, err |-> NoErr]
    ELSE DrReturn(NoResp, ErrRateLimited)

(***************************************************************************)
(* The status checks of ListTags, DeleteTag, GetRepository, Authenticate:  *)
(* the error each returns for a response (NoErr when it goes on).          *)
(***************************************************************************)
ListTagsStatusErr(status, url) ==
    IF status = StatusNotFound THEN ErrNotFound
    ELSE IF status = StatusUnauthorized THEN ErrUnauthorized
    ELSE IF status # StatusOK THEN NewAPIError(status, url, ErrorBody(status))
    ELSE NoErr

\* Faulty variant of DeleteTagStatusErr: only 204 counts as success.
DeleteTagStatusErrOnly204(status, url) ==
    IF status = StatusNotFound THEN ErrNotFound
    ELSE IF status = StatusUnauthorized THEN ErrUnauthorized
    ELSE IF status # StatusNoContent
         THEN NewAPIError(status, url, ErrorBody(status))
    ELSE NoErr

DeleteTagStatusErr(status, url) ==
    IF status = StatusNotFound THEN ErrNotFound
    ELSE IF status = StatusUnauthorized THEN ErrUnauthorized
    ELSE IF status # StatusNoContent /\ status # StatusOK
         THEN NewAPIError(status, url, ErrorBody(status))
    ELSE NoErr

GetRepositoryStatusErr(status, url) ==
    IF status = StatusNotFound THEN ErrNotFound
    ELSE IF status = StatusUnauthorized THEN ErrUnauthorized
    ELSE IF status # StatusOK THEN NewAPIError(status, url, ErrorBody(status))
    ELSE NoErr

AuthenticateStatusErr(status) ==
    IF status # StatusOK THEN NewAPIError(status, LoginEndpoint, ErrorBody(status))
    ELSE NoErr

(***************************************************************************)
(* Cleaner.Clean (internal/cleaner/cleaner.go): its pure pieces.           *)
(***************************************************************************)
NilVal == [kind |-> "nil"]
EmptyResult ==
    [TotalTags |-> 0, FilteredTags |-> 0, KeptTags |-> 0, DeletedTags |-> <<>>,
     Errors |-> <<>>, TotalSize |-> 0, ReclaimedSize |-> 0]

\* Step 2: the tags that go on after the filter.
ApplyFilter(f, ts) == IF f # NilFilter THEN FilterTags(ts, f) ELSE ts

\* Step 3: the orders the tags can go on in.
ApplySorter(sorter, ts) == IF sorter # NilSorter THEN SortResults(sorter, ts) ELSE {ts}

\* Faulty variant of KeepsTag: without a policy every tag is kept.
KeepsTagNilKeeps(policy, tag, t) ==
    IF policy = NilPolicy THEN TRUE ELSE ShouldKeep(policy, tag, t)

\* Step 4: c.policy != nil && c.policy.ShouldKeep(tag)
KeepsTag(policy, tag, t) == policy # NilPolicy /\ ShouldKeep(policy, tag, t)

\* Faulty variant of ResultAfterFilter: FilteredTags is the number of fetched
\* tags whatever the filter.
ResultAfterFilterCountsAll(r, f, ts) ==
    LET total == Len(ts)
    IN  IF total = 0 THEN [r EXCEPT !.TotalTags = total]
        ELSE [r EXCEPT !.TotalTags = total,
                       !.TotalSize = r.TotalSize + SumSizes(ts),
                       !.FilteredTags = total]

\* The result after steps 1 and 2, for the fetched tags ts.
ResultAfterFilter(r, f, ts) ==
    LET total == Len(ts)
    IN  IF total = 0 THEN [r EXCEPT !.TotalTags = total]
        ELSE [r EXCEPT !.TotalTags = total,
                       !.TotalSize = r.TotalSize + SumSizes(ts),
                       !.FilteredTags = IF f # NilFilter THEN Len(FilterTags(ts, f))
                                        ELSE total]

\* Faulty variant of ResultAfterClassify: a dry run does not record the names
\* of the delete-list.
ResultAfterClassifyNoDryRunList(r, keep, del, dryRun) ==
    [r EXCEPT !.KeptTags = Len(keep),
              !.ReclaimedSize = r.ReclaimedSize + SumSizes(del)]

\* The result once classification is over.
ResultAfterClassify(r, keep, del, dryRun) ==
    LET r1 == [r EXCEPT !.KeptTags = Len(keep),
                        !.ReclaimedSize = r.ReclaimedSize + SumSizes(del)]
    IN  IF Len(del) # 0 /\ dryRun
        THEN [r1 EXCEPT !.DeletedTags = r1.DeletedTags \o NamesOf(del)]
        ELSE r1

\* Faulty variant of ResultAfterDelete: a failed deletion resets ReclaimedSize.
ResultAfterDeleteResettingReclaimed(r, name, err) ==
    IF err # NoErr
    THEN [r EXCEPT !.Errors = Append(r.Errors, WrapTag("failed to delete tag", name, err)),
                   !.ReclaimedSize = 0]
    ELSE [r EXCEPT !.DeletedTags = Append(r.DeletedTags, name)]

\* The result after DeleteTag(name) has returned err.
ResultAfterDelete(r, name, err) ==
    IF err # NoErr
    THEN [r EXCEPT !.Errors = Append(r.Errors, WrapTag("failed to delete tag", name, err))]
    ELSE [r EXCEPT !.DeletedTags = Append(r.DeletedTags, name)]

(***************************************************************************)
(* Configurations of the Cleaner.                                          *)
(***************************************************************************)
Filters ==
    {NilFilter,
     CompositeFilter(<<RegexFilter({NameA, NameB, NameC}, FALSE),
                       RegexFilter({NameA}, TRUE)>>),
     RegexFilter({}, FALSE)}

Sorters == {NilSorter, LexicographicalSorter}

Policies ==
    {NilPolicy,
     NewDaysRetentionPolicy(90),
     NewCountRetentionPolicy(1, <<TagC, TagB, TagA>>),
     NewCompositePolicy(PolicyModeOR,
         <<NewDaysRetentionPolicy(90), NewCountRetentionPolicy(1, <<TagC, TagB, TagA>>)>>),
     NewCompositePolicy(PolicyModeOR, <<>>)}

Configs ==
    [filter : Filters, policy : Policies, sorter : Sorters, dryRun : BOOLEAN]

(***************************************************************************)
(* The state machine.                                                      *)
(***************************************************************************)
NoListRet == [done |-> FALSE, tags |-> <<>>, err |-> NoErr]
NoRet == [op |-> "none", err |-> NoErr, val |-> NilVal]
\* run is not in progress; no library function is applied on its own.
NoRun == [pc |-> "none"]
NoCall == [fn |-> "none"]
NoOut == [done |-> FALSE]

Init ==
    /\ cfg \in Configs
    /\ now \in NowValues
    /\ ctxDone = FALSE
    /\ token = ""
    /\ pc = "new"
    /\ op = "none"
    /\ dr = DrIdle
    /\ resps = <<>>
    /\ sleeps = <<>>
    /\ page = 0
    /\ allTags = <<>>
    /\ pageReqs = <<>>
    /\ tags = <<>>
    /\ idx = 0
    /\ tagsToKeep = <<>>
    /\ tagsToDelete = <<>>
    /\ result = EmptyResult
    /\ pagesGot = <<>>
    /\ listRet = NoListRet
    /\ deleteCalls = <<>>
    /\ deleteRets = <<>>
    /\ ret = NoRet
    /\ permits = 0
    /\ everSent = FALSE
    /\ run = NoRun
    /\ call = NoCall
    /\ out = NoOut

cleanVars == <<tags, idx, tagsToKeep, tagsToDelete, result, deleteCalls, deleteRets>>
listVars == <<page, allTags, pageReqs, pagesGot, listRet>>
libVars == <<run, call, out>>
envVars == <<cfg, now, ctxDone, everSent, libVars>>

\* A client method calls c.doRequest(req).
CallDoRequest ==
    /\ dr' = DrBegin
    /\ permits' = 0
    /\ resps' = <<>>
    /\ sleeps' = <<>>

\* A client method has taken doRequest's return values and returns.
EndCall ==
    /\ op' = "none"
    /\ dr' = DrIdle
    /\ permits' = 0
    /\ resps' = <<>>
    /\ sleeps' = <<>>

\* The caller cancels the context.
Cancel ==
    /\ ~ctxDone
    /\ pc # "done"
    /\ ctxDone' = TRUE
    /\ UNCHANGED <<cfg, now, everSent, libVars, token, pc, op, dr, resps, permits, sleeps,
                   listVars, cleanVars, ret>>

----------------------------------------------------------------------------
\* doRequest: c.limiter.Wait(req.Context())
LimiterWait ==
    /\ dr.stage = "wait"
    /\ page <= MaxPages
    /\ dr' = AfterLimiterWait(ctxDone)
    /\ permits' = IF ctxDone THEN permits ELSE permits + 1
    /\ UNCHANGED <<envVars, token, pc, op, resps, sleeps, listVars, cleanVars, ret>>

\* doRequest: resp, err := c.httpClient.Do(req), the first time
HttpDo ==
    /\ dr.stage = "do"
    /\ \E o \in DoOutcomes(ctxDone) :
          /\ resps' = Append(resps, o)
          /\ dr' = AfterFirstDo(o)
    /\ everSent' = TRUE
    /\ UNCHANGED <<cfg, now, ctxDone, libVars, token, pc, op, sleeps, permits, listVars,
                   cleanVars, ret>>

\* Faulty variant of BackoffSleep: a cancelled context ends the sleep and the
\* call at once.
BackoffSleepInterruptible ==
    /\ dr.stage = "sleep"
    /\ IF ctxDone
       THEN /\ dr' = DrReturn(NoResp, Wrap("network error", ErrNetworkError))
            /\ UNCHANGED sleeps
       ELSE /\ sleeps' = Append(sleeps, BackoffWait(dr.i))
            /\ dr' = [dr EXCEPT !.stage = "retry"]
    /\ UNCHANGED <<envVars, token, pc, op, resps, permits, listVars, cleanVars, ret>>

\* doRequest: time.Sleep(wait) in the retry loop
BackoffSleep ==
    /\ dr.stage = "sleep"
    /\ sleeps' = Append(sleeps, BackoffWait(dr.i))
    /\ dr' = [dr EXCEPT !.stage = "retry"]
    /\ UNCHANGED <<envVars, token, pc, op, resps, permits, listVars, cleanVars, ret>>

\* doRequest: resp, err = c.httpClient.Do(req) in the retry loop
HttpRetry ==
    /\ dr.stage = "retry"
    /\ \E o \in DoOutcomes(ctxDone) :
          /\ resps' = Append(resps, o)
          /\ dr' = AfterRetryDo(dr.i, o)
    /\ everSent' = TRUE
    /\ UNCHANGED <<cfg, now, ctxDone, libVars, token, pc, op, sleeps, permits, listVars,
                   cleanVars, ret>>

----------------------------------------------------------------------------
\* Client.AuthenticateWithToken
AuthenticateWithToken ==
    /\ pc = "new"
    /\ token' = "pat"
    /\ pc' = "done"
    /\ ret' = [op |-> "AuthenticateWithToken", err |-> NoErr, val |-> NilVal]
    /\ UNCHANGED <<envVars, op, dr, resps, permits, sleeps, listVars, cleanVars>>

\* Client.Authenticate, up to its call of doRequest
AuthenticateStart ==
    /\ pc = "new"
    /\ pc' = "auth"
    /\ op' = "Authenticate"
    /\ CallDoRequest
    /\ UNCHANGED <<envVars, token, listVars, cleanVars, ret>>

\* Client.Authenticate, from the return of doRequest
AuthenticateResume ==
    /\ op = "Authenticate"
    /\ dr.stage = "ret"
    /\ \E body \in BodiesOf(dr, LoginBodies) :
          LET err == IF dr.err # NoErr THEN dr.err
                     ELSE IF AuthenticateStatusErr(dr.resp.StatusCode) # NoErr
                          THEN AuthenticateStatusErr(dr.resp.StatusCode)
                     ELSE IF body.malformed
                          THEN DecodeError("failed to decode login response")
                     ELSE NoErr
          IN  /\ token' = IF err = NoErr THEN body.Token ELSE token
              /\ ret' = [op |-> "Authenticate", err |-> err, val |-> NilVal]
    /\ pc' = "done"
    /\ EndCall
    /\ UNCHANGED <<envVars, listVars, cleanVars>>

\* Client.GetRepository, up to its call of doRequest
GetRepositoryStart ==
    /\ pc = "new"
    /\ pc' = "repo"
    /\ op' = "GetRepository"
    /\ CallDoRequest
    /\ UNCHANGED <<envVars, token, listVars, cleanVars, ret>>

\* Client.GetRepository, from the return of doRequest
GetRepositoryResume ==
    /\ op = "GetRepository"
    /\ dr.stage = "ret"
    /\ \E body \in BodiesOf(dr, RepositoryBodies) :
          LET err == IF dr.err # NoErr THEN dr.err
                     ELSE IF GetRepositoryStatusErr(dr.resp.StatusCode, RepositoryURL) # NoErr
                          THEN GetRepositoryStatusErr(dr.resp.StatusCode, RepositoryURL)
                     ELSE IF body.malformed
                          THEN DecodeError("failed to decode repository response")
                     ELSE NoErr
          IN  ret' = [op |-> "GetRepository", err |-> err,
                      val |-> IF err = NoErr THEN body ELSE NilVal]
    /\ pc' = "done"
    /\ EndCall
    /\ UNCHANGED <<envVars, token, listVars, cleanVars>>

----------------------------------------------------------------------------
\* Clean returns (result, nil).
CleanReturn(r) ==
    /\ pc' = "done"
    /\ result' = r
    /\ ret' = [op |-> "Clean", err |-> NoErr, val |-> r]

\* Faulty variant of CleanAfterListTags: the error of ListTags is not checked.
CleanAfterListTagsIgnoringErr(ts, err) ==
    LET r == ResultAfterFilter(result, cfg.filter, ts)
        filtered == ApplyFilter(cfg.filter, ts)
    IN  IF r.TotalTags = 0 \/ Len(filtered) = 0
        THEN CleanReturn(r) /\ UNCHANGED <<tags, idx>>
        ELSE /\ \E sorted \in ApplySorter(cfg.sorter, filtered) : tags' = sorted
             /\ idx' = 1
             /\ result' = r
             /\ pc' = "classify"
             /\ UNCHANGED ret

\* Clean, from the return of c.client.ListTags to the classification loop.
CleanAfterListTags(ts, err) ==
    IF err # NoErr
    THEN /\ pc' = "done"
         /\ ret' = [op |-> "Clean", err |-> Wrap("failed to list tags", err), val |-> NilVal]
         /\ UNCHANGED <<tags, idx, result>>
    ELSE LET r == ResultAfterFilter(result, cfg.filter, ts)
             filtered == ApplyFilter(cfg.filter, ts)
         IN  IF r.TotalTags = 0 \/ Len(filtered) = 0
             THEN CleanReturn(r) /\ UNCHANGED <<tags, idx>>
             ELSE /\ \E sorted \in ApplySorter(cfg.sorter, filtered) : tags' = sorted
                  /\ idx' = 1
                  /\ result' = r
                  /\ pc' = "classify"
                  /\ UNCHANGED ret

\* Clean, up to its call of c.client.ListTags; ListTags, up to its first call
\* of doRequest.
CleanStart ==
    /\ pc = "new"
    /\ pc' = "list"
    /\ result' = EmptyResult
    /\ op' = "ListTags"
    /\ page' = 1
    /\ allTags' = <<>>
    /\ pageReqs' = <<1>>
    /\ CallDoRequest
    /\ pagesGot' = <<>>
    /\ listRet' = NoListRet
    /\ UNCHANGED <<envVars, token, tags, idx, tagsToKeep, tagsToDelete, deleteCalls,
                   deleteRets, ret>>

\* Faulty variant of LastPage: only an absent marker ends the listing.
LastPageAbsentOnly(next) == next = <<>>

\* Whether ListTags stops after a page with this next-page marker.
LastPage(next) == next = <<>> \/ next[1] = ""

\* Faulty variant of AppendPage: the new page goes in front.
AppendPageInFront(acc, results) == results \o acc

\* allTags = append(allTags, tagsResp.Results...)
AppendPage(acc, results) == acc \o results

\* Faulty variant of ListTagsRound: on a failure ListTags returns the tags
\* listed so far.
ListTagsRoundPartial(d, p, acc, body) ==
    LET statusErr == IF d.err # NoErr THEN d.err
                     ELSE ListTagsStatusErr(d.resp.StatusCode, TagsURL(p))
    IN  IF statusErr # NoErr
        THEN [returns |-> TRUE, tags |-> acc, err |-> statusErr, acc |-> acc,
              decoded |-> FALSE]
        ELSE IF body.malformed
        THEN [returns |-> TRUE, tags |-> acc,
              err |-> DecodeError("failed to decode tags response"), acc |-> acc,
              decoded |-> FALSE]
        ELSE IF LastPage(body.Next)
        THEN [returns |-> TRUE, tags |-> AppendPage(acc, body.Results), err |-> NoErr,
              acc |-> AppendPage(acc, body.Results), decoded |-> TRUE]
        ELSE [returns |-> FALSE, tags |-> <<>>, err |-> NoErr,
              acc |-> AppendPage(acc, body.Results), decoded |-> TRUE]

\* One round of ListTags' loop, from the return d of doRequest for page p, with
\* acc listed so far and body the body of the response: whether ListTags
\* returns, what it returns, and allTags.
ListTagsRound(d, p, acc, body) ==
    LET statusErr == IF d.err # NoErr THEN d.err
                     ELSE ListTagsStatusErr(d.resp.StatusCode, TagsURL(p))
    IN  IF statusErr # NoErr
        THEN [returns |-> TRUE, tags |-> <<>>, err |-> statusErr, acc |-> acc,
              decoded |-> FALSE]
        ELSE IF body.malformed
        THEN [returns |-> TRUE, tags |-> <<>>,
              err |-> DecodeError("failed to decode tags response"), acc |-> acc,
              decoded |-> FALSE]
        ELSE IF LastPage(body.Next)
        THEN [returns |-> TRUE, tags |-> AppendPage(acc, body.Results), err |-> NoErr,
              acc |-> AppendPage(acc, body.Results), decoded |-> TRUE]
        ELSE [returns |-> FALSE, tags |-> <<>>, err |-> NoErr,
              acc |-> AppendPage(acc, body.Results), decoded |-> TRUE]

\* ListTags, from the return of doRequest: one round of its loop; when it
\* returns, Clean goes on.
ListTagsResume ==
    /\ op = "ListTags"
    /\ pc = "list"
    /\ dr.stage = "ret"
    /\ \E body \in BodiesOf(dr, TagsBodies(page, allTags)) :
          LET round == ListTagsRound(dr, page, allTags, body)
          IN  /\ pagesGot' = IF round.decoded THEN Append(pagesGot, body) ELSE pagesGot
              /\ IF round.returns
                 THEN /\ listRet' = [done |-> TRUE, tags |-> round.tags, err |-> round.err]
                      /\ page' = 0
                      /\ allTags' = <<>>
                      /\ EndCall
                      /\ CleanAfterListTags(round.tags, round.err)
                      /\ UNCHANGED pageReqs
                 ELSE /\ allTags' = round.acc
                      /\ page' = page + 1
                      /\ pageReqs' = Append(pageReqs, page + 1)
                      /\ CallDoRequest
                      /\ UNCHANGED <<op, pc, tags, idx, result, listRet, ret>>
    /\ UNCHANGED <<envVars, token, tagsToKeep, tagsToDelete, deleteCalls, deleteRets>>

\* Faulty variant of Classify: a kept tag also goes to the delete-list.
ClassifyKeptInBoth ==
    /\ pc = "classify"
    /\ idx <= Len(tags)
    /\ IF KeepsTag(cfg.policy, tags[idx], now)
       THEN /\ tagsToKeep' = Append(tagsToKeep, tags[idx])
            /\ tagsToDelete' = Append(tagsToDelete, tags[idx])
       ELSE tagsToDelete' = Append(tagsToDelete, tags[idx]) /\ UNCHANGED tagsToKeep
    /\ idx' = idx + 1
    /\ UNCHANGED <<envVars, token, pc, op, dr, resps, permits, sleeps, listVars, tags, result,
                   deleteCalls, deleteRets, ret>>

\* Clean, step 4: one round of the classification loop.
Classify ==
    /\ pc = "classify"
    /\ idx <= Len(tags)
    /\ IF KeepsTag(cfg.policy, tags[idx], now)
       THEN tagsToKeep' = Append(tagsToKeep, tags[idx]) /\ UNCHANGED tagsToDelete
       ELSE tagsToDelete' = Append(tagsToDelete, tags[idx]) /\ UNCHANGED tagsToKeep
    /\ idx' = idx + 1
    /\ UNCHANGED <<envVars, token, pc, op, dr, resps, permits, sleeps, listVars, tags, result,
                   deleteCalls, deleteRets, ret>>

\* Clean, from the end of the classification loop to the deletion loop (or to
\* its return: nothing to delete, or a dry run).
AfterClassify ==
    /\ pc = "classify"
    /\ idx > Len(tags)
    /\ LET r == ResultAfterClassify(result, tagsToKeep, tagsToDelete, cfg.dryRun)
       IN  IF Len(tagsToDelete) = 0 \/ cfg.dryRun
           THEN CleanReturn(r) /\ UNCHANGED idx
           ELSE /\ result' = r
                /\ pc' = "delete"
                /\ idx' = 1
                /\ UNCHANGED ret
    /\ UNCHANGED <<envVars, token, op, dr, resps, permits, sleeps, listVars, tags, tagsToKeep,
                   tagsToDelete, deleteCalls, deleteRets>>

\* Faulty variant of DeleteTagStart: the deletion loop runs over tags, not over
\* tagsToDelete.
DeleteTagStartFromTags ==
    /\ pc = "delete"
    /\ op = "none"
    /\ idx <= Len(tagsToDelete)
    /\ op' = "DeleteTag"
    /\ deleteCalls' = Append(deleteCalls, tags[idx].Name)
    /\ CallDoRequest
    /\ pageReqs' = <<>>
    /\ pagesGot' = <<>>
    /\ UNCHANGED <<envVars, token, pc, page, allTags, listRet, tags, idx, tagsToKeep,
                   tagsToDelete, result, deleteRets, ret>>

\* Clean, step 5: the deletion loop calls c.client.DeleteTag; DeleteTag, up to
\* its call of doRequest.
DeleteTagStart ==
    /\ pc = "delete"
    /\ op = "none"
    /\ idx <= Len(tagsToDelete)
    /\ op' = "DeleteTag"
    /\ deleteCalls' = Append(deleteCalls, tagsToDelete[idx].Name)
    /\ CallDoRequest
    /\ pageReqs' = <<>>
    /\ pagesGot' = <<>>
    /\ UNCHANGED <<envVars, token, pc, page, allTags, listRet, tags, idx, tagsToKeep,
                   tagsToDelete, result, deleteRets, ret>>

\* Faulty variant of DeleteTagResume: the first failed deletion ends the loop.
DeleteTagResumeAborting ==
    /\ op = "DeleteTag"
    /\ dr.stage = "ret"
    /\ LET name == tagsToDelete[idx].Name
           err == IF dr.err # NoErr THEN dr.err
                  ELSE DeleteTagStatusErr(dr.resp.StatusCode, TagURL(name))
           r == ResultAfterDelete(result, name, err)
       IN  /\ deleteRets' = Append(deleteRets, err)
           /\ IF idx + 1 > Len(tagsToDelete) \/ err # NoErr
              THEN CleanReturn(r)
              ELSE result' = r /\ UNCHANGED <<pc, ret>>
    /\ idx' = idx + 1
    /\ EndCall
    /\ UNCHANGED <<envVars, token, listVars, tags, tagsToKeep, tagsToDelete, deleteCalls>>

\* DeleteTag, from the return of doRequest; Clean records the outcome and goes
\* to the next tag, or returns after the last one.
DeleteTagResume ==
    /\ op = "DeleteTag"
    /\ dr.stage = "ret"
    /\ LET name == tagsToDelete[idx].Name
           err == IF dr.err # NoErr THEN dr.err
                  ELSE DeleteTagStatusErr(dr.resp.StatusCode, TagURL(name))
           r == ResultAfterDelete(result, name, err)
       IN  /\ deleteRets' = Append(deleteRets, err)
           /\ IF idx + 1 > Len(tagsToDelete)
              THEN CleanReturn(r)
              ELSE result' = r /\ UNCHANGED <<pc, ret>>
    /\ idx' = idx + 1
    /\ EndCall
    /\ UNCHANGED <<envVars, token, listVars, tags, tagsToKeep, tagsToDelete, deleteCalls>>

----------------------------------------------------------------------------
Next ==
    \/ Cancel
    \/ LimiterWait
    \/ HttpDo
    \/ BackoffSleep
    \/ HttpRetry
    \/ AuthenticateWithToken
    \/ AuthenticateStart
    \/ AuthenticateResume
    \/ GetRepositoryStart
    \/ GetRepositoryResume
    \/ CleanStart
    \/ ListTagsResume
    \/ Classify
    \/ AfterClassify
    \/ DeleteTagStart
    \/ DeleteTagResume

Spec == Init /\ [][Next]_vars

(***************************************************************************)
(* run (the command, cmd/docker-hub-cleaner): one behaviour is one run of  *)
(* the program with flags drawn from RunFlags.  A pattern flag is unset,   *)
(* or does not compile, or compiles to a pattern.  The context of run is   *)
(* context.Background(): it is never cancelled.                            *)
(***************************************************************************)
UnsetFlag == [text |-> "", compiles |-> TRUE, matched |-> {}, pattern |-> NilPattern]
BadPatternFlag == [text |-> "[", compiles |-> FALSE, matched |-> {}, pattern |-> NilPattern]
\* A tag or exclude pattern that matches the names of matched.
PatternFlag(matched) ==
    [text |-> "re", compiles |-> TRUE, matched |-> matched, pattern |-> NilPattern]
\* A strip-prefix pattern "^literal".
StripFlag(literal) ==
    [text |-> "^re", compiles |-> TRUE, matched |-> {}, pattern |-> PrefixPattern(literal)]

\* token set; username and password set; a repository, 90 days, the first
\* tag, lexicographical order, no pattern.
BaseFlags ==
    [token |-> "pat", username |-> "", password |-> "", repository |-> "u/r",
     keepDays |-> 90, keepCount |-> 1, sortMethod |-> "lexicographical",
     tagPattern |-> UnsetFlag, excludePattern |-> UnsetFlag, stripPrefix |-> UnsetFlag,
     dryRun |-> TRUE]
PasswordFlags == [BaseFlags EXCEPT !.token = "", !.username = "u", !.password = "p"]

RunFlags ==
    \* the ways to authenticate, dry and live
    {[f EXCEPT !.dryRun = d] : f \in {BaseFlags, PasswordFlags}, d \in BOOLEAN}
    \cup
    \* no credentials, no repository, no policy
    {[BaseFlags EXCEPT !.token = ""],
     [PasswordFlags EXCEPT !.password = ""],
     [BaseFlags EXCEPT !.repository = ""],
     [BaseFlags EXCEPT !.keepDays = 0, !.keepCount = 0]}
    \cup
    \* the patterns of the filter
    {[f EXCEPT !.tagPattern = tp, !.excludePattern = ep, !.dryRun = FALSE] :
        f \in {BaseFlags, PasswordFlags},
        tp \in {BadPatternFlag, PatternFlag({NameA, NameB, NameC})},
        ep \in {BadPatternFlag, PatternFlag({NameA})}}
    \cup
    {[f EXCEPT !.excludePattern = BadPatternFlag] : f \in {BaseFlags, PasswordFlags}}
    \cup
    \* the sort methods
    {[f EXCEPT !.sortMethod = "semver", !.stripPrefix = sp] :
        f \in {BaseFlags, PasswordFlags},
        sp \in {UnsetFlag, BadPatternFlag, StripFlag(NameA)}}
    \cup
    {[BaseFlags EXCEPT !.sortMethod = "bogus"],
     [BaseFlags EXCEPT !.stripPrefix = BadPatternFlag]}
    \cup
    \* the policies
    {[BaseFlags EXCEPT !.keepDays = 0, !.dryRun = FALSE],
     [BaseFlags EXCEPT !.keepCount = 0, !.dryRun = FALSE],
     [BaseFlags EXCEPT !.keepDays = 0, !.keepCount = -1, !.dryRun = FALSE]}

\* The error of regexp.Compile, and the errors run returns for its flags.
RegexpError == [kind |-> "regexp"]
FlagError(msg) == [kind |-> "flag", msg |-> msg]

RunExit(err) == [run EXCEPT !.pc = "exit", !.err = err]

\* run, lines 110-123: the checks of the flags
RunValidationErr(f) ==
    IF f.token = "" /\ (f.username = "" \/ f.password = "")
    THEN FlagError("either --token or --username/--password must be provided")
    ELSE IF f.repository = "" THEN FlagError("--repository is required")
    ELSE IF f.keepDays = 0 /\ f.keepCount = 0
         THEN FlagError("at least one retention policy must be specified")
    ELSE NoErr

\* filter.NewRegexFilter(pattern, invert): (filter, error)
NewRegexFilter(flag, invert) ==
    IF flag.compiles
    THEN [filter |-> RegexFilter(flag.matched, invert), err |-> NoErr]
    ELSE [filter |-> NilFilter, err |-> Wrap("failed to compile regex pattern", RegexpError)]

\* run, lines 141-164: (tagFilter, error)
RunSetupFilterResult(f) ==
    LET inc == NewRegexFilter(f.tagPattern, FALSE)
        exc == NewRegexFilter(f.excludePattern, TRUE)
        fs1 == IF f.tagPattern.text # "" THEN <<inc.filter>> ELSE <<>>
        fs2 == IF f.excludePattern.text # "" THEN Append(fs1, exc.filter) ELSE fs1
    IN  IF f.tagPattern.text # "" /\ inc.err # NoErr
        THEN [filter |-> NilFilter, err |-> Wrap("invalid tag pattern", inc.err)]
        ELSE IF f.excludePattern.text # "" /\ exc.err # NoErr
        THEN [filter |-> NilFilter, err |-> Wrap("invalid exclude pattern", exc.err)]
        ELSE [filter |-> IF Len(fs2) > 0 THEN CompositeFilter(fs2) ELSE NilFilter,
              err |-> NoErr]

\* sortpkg.NewSemverSorter(stripPrefixPattern): (sorter, error)
NewSemverSorter(flag) ==
    IF flag.text = "" THEN [sorter |-> SemverSorter(NilPattern), err |-> NoErr]
    ELSE IF flag.compiles THEN [sorter |-> SemverSorter(flag.pattern), err |-> NoErr]
    ELSE [sorter |-> NilSorter, err |-> RegexpError]

\* run, lines 167-184: (sorter, error)
RunSetupSorterResult(f) ==
    IF f.sortMethod = "lexicographical"
    THEN [sorter |-> LexicographicalSorter, err |-> NoErr]
    ELSE IF f.sortMethod = "semver"
    THEN IF NewSemverSorter(f.stripPrefix).err # NoErr
         THEN [sorter |-> NilSorter,
               err |-> Wrap("invalid strip-prefix pattern", NewSemverSorter(f.stripPrefix).err)]
         ELSE NewSemverSorter(f.stripPrefix)
    ELSE [sorter |-> NilSorter, err |-> FlagError("invalid sort method")]

\* Faulty variant of RunPolicy: the count policy is built with one more than
\* --keep-count.
RunPolicyOneMore(f, sortedTags) ==
    LET ps1 == IF f.keepDays > 0 THEN <<NewDaysRetentionPolicy(f.keepDays)>> ELSE <<>>
        ps2 == IF f.keepCount > 0
               THEN Append(ps1, NewCountRetentionPolicy(f.keepCount + 1, sortedTags))
               ELSE ps1
    IN  IF Len(ps2) = 1 THEN ps2[1] ELSE NewCompositePolicy(PolicyModeOR, ps2)

\* run, lines 202-222: the retention policy, from the sorted tags
RunPolicy(f, sortedTags) ==
    LET ps1 == IF f.keepDays > 0 THEN <<NewDaysRetentionPolicy(f.keepDays)>> ELSE <<>>
        ps2 == IF f.keepCount > 0
               THEN Append(ps1, NewCountRetentionPolicy(f.keepCount, sortedTags))
               ELSE ps1
    IN  IF Len(ps2) = 1 THEN ps2[1] ELSE NewCompositePolicy(PolicyModeOR, ps2)

RunInit ==
    /\ cfg = [filter |-> NilFilter, policy |-> NilPolicy, sorter |-> NilSorter,
              dryRun |-> TRUE]
    /\ now \in NowValues
    /\ pc = "new"
    /\ run \in {[pc |-> "start", flags |-> f, filter |-> NilFilter, sorter |-> NilSorter,
                  sortedTags |-> <<>>, err |-> NoErr] : f \in RunFlags}
    /\ call = NoCall
    /\ out = NoOut
    /\ ctxDone = FALSE
    /\ token = ""
    /\ op = "none"
    /\ dr = DrIdle
    /\ resps = <<>>
    /\ sleeps = <<>>
    /\ page = 0
    /\ allTags = <<>>
    /\ pageReqs = <<>>
    /\ tags = <<>>
    /\ idx = 0
    /\ tagsToKeep = <<>>
    /\ tagsToDelete = <<>>
    /\ result = EmptyResult
    /\ pagesGot = <<>>
    /\ listRet = NoListRet
    /\ deleteCalls = <<>>
    /\ deleteRets = <<>>
    /\ ret = NoRet
    /\ permits = 0
    /\ everSent = FALSE

\* What a step of run itself leaves alone.
runFrame ==
    <<now, ctxDone, everSent, call, out, op, dr, resps, permits, sleeps, listVars,
      cleanVars>>

\* run, lines 110-126: validation of the flags, api.NewClient()
RunValidate ==
    /\ run.pc = "start"
    /\ run' = IF RunValidationErr(run.flags) # NoErr
              THEN RunExit(RunValidationErr(run.flags))
              ELSE [run EXCEPT !.pc = "auth"]
    /\ UNCHANGED <<runFrame, cfg, token, pc, ret>>

\* run, lines 130-132: client.AuthenticateWithToken(token)
RunAuthenticateWithToken ==
    /\ run.pc = "auth"
    /\ run.flags.token # ""
    /\ token' = run.flags.token
    /\ run' = [run EXCEPT !.pc = "filter"]
    /\ UNCHANGED <<runFrame, cfg, pc, ret>>

\* run, line 134: the call of client.Authenticate
RunAuthenticate ==
    /\ run.pc = "auth"
    /\ run.flags.token = ""
    /\ AuthenticateStart

\* run, lines 134-137: from the return of client.Authenticate
RunAfterAuthenticate ==
    /\ run.pc = "auth"
    /\ pc = "done"
    /\ run' = IF ret.err # NoErr
              THEN RunExit(Wrap("authentication failed", ret.err))
              ELSE [run EXCEPT !.pc = "filter"]
    /\ pc' = "new"
    /\ ret' = NoRet
    /\ UNCHANGED <<runFrame, cfg, token>>

\* run, lines 141-164: the filter
RunSetupFilter ==
    /\ run.pc = "filter"
    /\ LET r == RunSetupFilterResult(run.flags)
       IN  run' = IF r.err # NoErr THEN RunExit(r.err)
                  ELSE [run EXCEPT !.pc = "sorter", !.filter = r.filter]
    /\ UNCHANGED <<runFrame, cfg, token, pc, ret>>

\* run, lines 167-184: the sorter
RunSetupSorter ==
    /\ run.pc = "sorter"
    /\ LET r == RunSetupSorterResult(run.flags)
       IN  run' = IF r.err # NoErr THEN RunExit(r.err)
                  ELSE [run EXCEPT !.pc = "list", !.sorter = r.sorter]
    /\ UNCHANGED <<runFrame, cfg, token, pc, ret>>

\* run, line 188: the call of client.ListTags; ListTags, up to its first call
\* of doRequest
RunListTags ==
    /\ run.pc = "list"
    /\ pc = "new"
    /\ pc' = "runlist"
    /\ op' = "ListTags"
    /\ page' = 1
    /\ allTags' = <<>>
    /\ pageReqs' = <<1>>
    /\ pagesGot' = <<>>
    /\ listRet' = NoListRet
    /\ CallDoRequest
    /\ UNCHANGED <<envVars, token, cleanVars, ret>>

\* run, lines 189-233: from the return of client.ListTags to the Cleaner
RunAfterListTags(ts, err) ==
    IF err # NoErr
    THEN /\ run' = RunExit(Wrap("failed to list tags", err))
         /\ pc' = "new"
         /\ UNCHANGED cfg
    ELSE /\ \E sortedTags \in SortResults(run.sorter, ApplyFilter(run.filter, ts)) :
               /\ cfg' = [filter |-> run.filter,
                          policy |-> RunPolicy(run.flags, sortedTags),
                          sorter |-> run.sorter,
                          dryRun |-> run.flags.dryRun]
               /\ run' = [run EXCEPT !.pc = "clean", !.sortedTags = sortedTags]
         /\ pc' = "new"

\* ListTags called by run, from the return of doRequest: one round of its
\* loop; when it returns, run goes on.
RunListTagsResume ==
    /\ op = "ListTags"
    /\ pc = "runlist"
    /\ dr.stage = "ret"
    /\ \E body \in BodiesOf(dr, TagsBodies(page, allTags)) :
          LET round == ListTagsRound(dr, page, allTags, body)
          IN  /\ pagesGot' = IF round.decoded THEN Append(pagesGot, body) ELSE pagesGot
              /\ IF round.returns
                 THEN /\ listRet' = [done |-> TRUE, tags |-> round.tags, err |-> round.err]
                      /\ page' = 0
                      /\ allTags' = <<>>
                      /\ EndCall
                      /\ RunAfterListTags(round.tags, round.err)
                      /\ UNCHANGED pageReqs
                 ELSE /\ allTags' = round.acc
                      /\ page' = page + 1
                      /\ pageReqs' = Append(pageReqs, page + 1)
                      /\ CallDoRequest
                      /\ UNCHANGED <<op, pc, listRet, run, cfg>>
    /\ UNCHANGED <<now, ctxDone, everSent, call, out, token, cleanVars, ret>>

\* run, line 240: the call of c.Clean
RunClean ==
    /\ run.pc = "clean"
    /\ CleanStart

\* run, lines 241-272: from the return of c.Clean
RunAfterClean ==
    /\ run.pc = "clean"
    /\ pc = "done"
    /\ run' = IF ret.err # NoErr THEN RunExit(Wrap("cleaning failed", ret.err))
              ELSE RunExit(NoErr)
    /\ UNCHANGED <<runFrame, cfg, token, pc, ret>>

RunNext ==
    \/ RunValidate
    \/ RunAuthenticateWithToken
    \/ RunAuthenticate
    \/ AuthenticateResume
    \/ RunAfterAuthenticate
    \/ RunSetupFilter
    \/ RunSetupSorter
    \/ RunListTags
    \/ RunListTagsResume
    \/ RunClean
    \/ ListTagsResume
    \/ Classify
    \/ AfterClassify
    \/ DeleteTagStart
    \/ DeleteTagResume
    \/ RunAfterClean
    \/ LimiterWait
    \/ HttpDo
    \/ BackoffSleep
    \/ HttpRetry

RunSpec == RunInit /\ [][RunNext]_vars

(***************************************************************************)
(* The library functions on their own: one behaviour applies one function  *)
(* of internal/policy, internal/filter or internal/sort to inputs drawn    *)
(* from bounded sets, or waits on the limiter of a client a number of      *)
(* times.  The client's methods are not used.                              *)
(***************************************************************************)
\* A tag with the name of TagA, as a later listing can return it.
TagA2 == Tag(NameA, 1620, 150)
LibTags == RepoTags \cup {TagA2}

CountCalls ==
    {[fn |-> "CountShouldKeep", count |-> n, sorted |-> l, tag |-> t] :
        n \in 0..MaxCount, l \in DistinctSeqs(RepoTags, MaxSorted), t \in LibTags}

\* The tags a days policy is asked about: updated around every cutoff.
DaysTags(t) == {Tag(NameA, u, 100) : u \in (t - MaxDays - 1)..(t + 1)}
DaysCalls(t) ==
    {[fn |-> "DaysShouldKeep", days |-> d, tag |-> tg] :
        d \in 0..MaxDays, tg \in DaysTags(t)}

\* Policies that keep every tag and no tag of LibTags.
AlwaysKeep == NewCountRetentionPolicy(MaxSorted, <<TagA, TagB, TagC>>)
AlwaysReject == NewCountRetentionPolicy(0, <<>>)

\* The sequences of at most n elements of S.
SeqsUpTo(S, n) == UNION {[1..k -> S] : k \in 0..n}

CompositeCalls ==
    {[fn |-> "CompositeShouldKeep", mode |-> md, policies |-> ps, tag |-> t] :
        md \in {PolicyModeOR, PolicyModeAND},
        ps \in SeqsUpTo({AlwaysKeep, AlwaysReject}, MaxSubPolicies),
        t \in LibTags}

RegexFilters == {RegexFilter(matched, inv) : matched \in SUBSET Names, inv \in BOOLEAN}
MatchesCalls ==
    {[fn |-> "Matches", filter |-> f, name |-> n] :
        f \in RegexFilters \cup {CompositeFilter(fs) : fs \in SeqsUpTo(RegexFilters, MaxMembers)},
        n \in Names}

\* Tag names for the sorters: "2.0.0", "1.10.0", "1.9.0", "1.9.0-rc1",
\* "1.2.3", "v1.2.3", "develop-1.2.3", "latest"; "develop-" for the pattern
\* "^develop-".
Name200 == <<50, 46, 48, 46, 48>>
Name1100 == <<49, 46, 49, 48, 46, 48>>
Name190 == <<49, 46, 57, 46, 48>>
Name190rc1 == <<49, 46, 57, 46, 48, 45, 114, 99, 49>>
Name123 == <<49, 46, 50, 46, 51>>
NameV123 == <<118, 49, 46, 50, 46, 51>>
NameDevelop123 == <<100, 101, 118, 101, 108, 111, 112, 45, 49, 46, 50, 46, 51>>
NameLatest == <<108, 97, 116, 101, 115, 116>>
DevelopPrefix == <<100, 101, 118, 101, 108, 111, 112, 45>>

VersionTags ==
    {Tag(n, 0, 100) : n \in {Name200, Name1100, Name190, Name190rc1, Name123, NameV123,
                             NameDevelop123, NameLatest}}

SortCalls ==
    {[fn |-> "Sort", sorter |-> SemverSorter(pat), tags |-> ts] :
        pat \in {NilPattern, PrefixPattern(DevelopPrefix)},
        ts \in DistinctSeqs(VersionTags, MaxSortLen)}
    \cup
    {[fn |-> "Sort", sorter |-> LexicographicalSorter, tags |-> ts] :
        ts \in DistinctSeqs(LibTags, MaxSortLen)}

\* The calls that go through one client wait on its limiter one after the
\* other; a call comes back-to-back with the one before it (gap 0) or 200 ms
\* or 1 s after it was admitted.
WaitGaps == {0, Second \div 5, Second}
WaitCalls == {[fn |-> "Wait", limiter |-> ClientLimiter]}

LibCalls(t) ==
    CountCalls \cup DaysCalls(t) \cup CompositeCalls \cup MatchesCalls \cup SortCalls
        \cup WaitCalls

\* No client operation is in progress and none was.
ClientUnused ==
    /\ ctxDone = FALSE
    /\ token = ""
    /\ op = "none"
    /\ dr = DrIdle
    /\ resps = <<>>
    /\ sleeps = <<>>
    /\ page = 0
    /\ allTags = <<>>
    /\ pageReqs = <<>>
    /\ tags = <<>>
    /\ idx = 0
    /\ tagsToKeep = <<>>
    /\ tagsToDelete = <<>>
    /\ result = EmptyResult
    /\ pagesGot = <<>>
    /\ listRet = NoListRet
    /\ deleteCalls = <<>>
    /\ deleteRets = <<>>
    /\ ret = NoRet
    /\ permits = 0
    /\ everSent = FALSE

LibInit ==
    /\ cfg = [filter |-> NilFilter, policy |-> NilPolicy, sorter |-> NilSorter,
              dryRun |-> TRUE]
    /\ now \in NowValues
    /\ pc = "lib"
    /\ run = NoRun
    /\ call \in LibCalls(now)
    /\ out = NoOut
    /\ ClientUnused

libFrame ==
    <<cfg, now, ctxDone, token, pc, op, dr, resps, sleeps, listVars, cleanVars, ret,
      permits, everSent, run, call>>

\* policy.NewCountRetentionPolicy(count, sorted), then ShouldKeep(tag)
ApplyCountPolicy ==
    /\ call.fn = "CountShouldKeep"
    /\ ~out.done
    /\ LET p == NewCountRetentionPolicy(call.count, call.sorted)
       IN  out' = [done |-> TRUE, policy |-> p, keep |-> ShouldKeep(p, call.tag, now)]
    /\ UNCHANGED libFrame

\* policy.NewDaysRetentionPolicy(days), then ShouldKeep(tag)
ApplyDaysPolicy ==
    /\ call.fn = "DaysShouldKeep"
    /\ ~out.done
    /\ LET p == NewDaysRetentionPolicy(call.days)
       IN  out' = [done |-> TRUE, policy |-> p, keep |-> ShouldKeep(p, call.tag, now)]
    /\ UNCHANGED libFrame

\* policy.NewCompositePolicy(mode, policies...), then ShouldKeep(tag)
ApplyCompositePolicy ==
    /\ call.fn = "CompositeShouldKeep"
    /\ ~out.done
    /\ LET p == NewCompositePolicy(call.mode, call.policies)
       IN  out' = [done |-> TRUE, policy |-> p, keep |-> ShouldKeep(p, call.tag, now)]
    /\ UNCHANGED libFrame

\* filter.Matches(name)
ApplyMatches ==
    /\ call.fn = "Matches"
    /\ ~out.done
    /\ out' = [done |-> TRUE, matches |-> Matches(call.filter, call.name)]
    /\ UNCHANGED libFrame

\* sorter.Sort(tags), once and then once more on the same tags
ApplySort ==
    /\ call.fn = "Sort"
    /\ IF out.done THEN Len(out.vals) < 2 ELSE TRUE
    /\ \E r \in SortResults(call.sorter, call.tags) :
          out' = [done |-> TRUE, vals |-> IF out.done THEN Append(out.vals, r) ELSE <<r>>]
    /\ UNCHANGED libFrame

\* c.limiter.Wait(ctx) of the next call through the client: out keeps the
\* limiter, the gaps between the calls and the times they were admitted at.
ApplyWait ==
    /\ call.fn = "Wait"
    /\ IF out.done THEN Len(out.admitted) < MaxWaits ELSE TRUE
    /\ \E gap \in WaitGaps :
          LET lim == IF out.done THEN out.lim ELSE call.limiter
              gaps == IF out.done THEN out.gaps ELSE <<>>
              admitted == IF out.done THEN out.admitted ELSE <<>>
              t == IF out.done THEN Last(out.admitted) + gap ELSE gap
              r == Reserve(lim, t)
          IN  out' = [done |-> TRUE, lim |-> r.lim, gaps |-> Append(gaps, gap),
                      admitted |-> Append(admitted, r.timeToAct)]
    /\ UNCHANGED libFrame

LibNext ==
    \/ ApplyWait
    \/ ApplyCountPolicy
    \/ ApplyDaysPolicy
    \/ ApplyCompositePolicy
    \/ ApplyMatches
    \/ ApplySort

LibSpec == LibInit /\ [][LibNext]_vars

(***************************************************************************)
(* Properties.                                                             *)
(***************************************************************************)
\* The sum of the sizes of a set of tags.
RECURSIVE SizeOfSet(_)
SizeOfSet(S) ==
    IF S = {} THEN 0
    ELSE LET t == CHOOSE x \in S : TRUE IN t.FullSize + SizeOfSet(S \ {t})

\* The results of the first n decoded pages, one after the other.
RECURSIVE PagesConcat(_)
PagesConcat(n) == IF n = 0 THEN <<>> ELSE PagesConcat(n - 1) \o pagesGot[n].Results

\* The tags of Clean's own fetch that the configured filter lets through.
PostFilterSet ==
    {t \in Range(listRet.tags) : cfg.filter = NilFilter \/ Matches(cfg.filter, t.Name)}

\* Clean has classified every tag.
ClassificationOver ==
    /\ tags # <<>>
    /\ pc \in {"delete", "done"} \/ (pc = "classify" /\ idx > Len(tags))

\* C1: once Clean has classified, the keep-list and the delete-list partition
\* the post-filter tag set: together they are that set, they share no tag, and
\* neither holds a tag twice or a tag from outside it.
C1_Partition ==
    ClassificationOver =>
        /\ Range(tagsToKeep) \cup Range(tagsToDelete) = PostFilterSet
        /\ Range(tagsToKeep) \cap Range(tagsToDelete) = {}
        /\ Len(tagsToKeep) = Cardinality(Range(tagsToKeep))
        /\ Len(tagsToDelete) = Cardinality(Range(tagsToDelete))
        /\ {t.Name : t \in Range(tagsToKeep)} \cap {t.Name : t \in Range(tagsToDelete)} = {}

\* A run that has classified three fetched tags of which the filter rejected
\* one, one is kept and one is to be deleted.
C1_Witness ==
    /\ pc = "done"
    /\ Len(listRet.tags) = 3
    /\ Len(tagsToKeep) = 1
    /\ Len(tagsToDelete) = 1

\* C2 as stated: every DeleteTag call is for a tag of Clean's own fetch that
\* passed the filter and for which policy.ShouldKeep returned false.
C2_DeleteOnlyWhereShouldKeepFalse ==
    \A i \in 1..Len(deleteCalls) :
        \E t \in PostFilterSet :
            /\ t.Name = deleteCalls[i]
            /\ cfg.policy # NilPolicy
            /\ ~ShouldKeep(cfg.policy, t, now)

\* C2 (amended): every DeleteTag call is for a tag of Clean's own fetch that
\* passed the filter and that the policy did not keep (no policy is configured,
\* or policy.ShouldKeep returned false); it is never for a tag of the keep-list
\* or one the filter rejected, and none is issued before every tag has been
\* classified.
C2_DeleteOnlyUnkept ==
    /\ \A i \in 1..Len(deleteCalls) :
          /\ \E t \in PostFilterSet :
                /\ t.Name = deleteCalls[i]
                /\ cfg.policy = NilPolicy \/ ~ShouldKeep(cfg.policy, t, now)
          /\ \A k \in 1..Len(tagsToKeep) : tagsToKeep[k].Name # deleteCalls[i]
    /\ deleteCalls # <<>> =>
          /\ listRet.done /\ listRet.err = NoErr
          /\ pc \in {"delete", "done"}
          /\ Len(tagsToKeep) + Len(tagsToDelete) = Len(tags)

\* A DeleteTag call has been issued in a run with a kept tag and a tag the
\* filter rejected.
C2_Witness ==
    /\ deleteCalls # <<>>
    /\ tagsToKeep # <<>>
    /\ Len(listRet.tags) > Len(tags)

\* C3: a dry run never calls DeleteTag, and the result it returns lists the
\* names of the delete-list in order, with ReclaimedSize the sum of their sizes.
C3_DryRun ==
    cfg.dryRun =>
        /\ deleteCalls = <<>>
        /\ op # "DeleteTag"
        /\ (pc = "done" /\ ret.op = "Clean" /\ ret.err = NoErr) =>
              /\ ret.val.DeletedTags = [i \in 1..Len(tagsToDelete) |-> tagsToDelete[i].Name]
              /\ ret.val.ReclaimedSize = SizeOfSet(Range(tagsToDelete))

\* A dry run has returned with two tags on the delete-list.
C3_Witness ==
    /\ cfg.dryRun
    /\ pc = "done" /\ ret.op = "Clean" /\ ret.err = NoErr
    /\ Len(tagsToDelete) = 2
    /\ Len(ret.val.DeletedTags) = 2

\* The names of the first n DeleteTag calls that returned no error.
RECURSIVE DeletedOf(_)
DeletedOf(n) ==
    IF n = 0 THEN <<>>
    ELSE IF deleteRets[n] = NoErr THEN Append(DeletedOf(n - 1), deleteCalls[n])
    ELSE DeletedOf(n - 1)

\* The errors of the first n DeleteTag calls, each with the name of its tag.
RECURSIVE ErrorsOf(_)
ErrorsOf(n) ==
    IF n = 0 THEN <<>>
    ELSE IF deleteRets[n] # NoErr
         THEN Append(ErrorsOf(n - 1),
                     [kind |-> "wrapped", msg |-> "failed to delete tag",
                      tag |-> deleteCalls[n], err |-> deleteRets[n]])
    ELSE ErrorsOf(n - 1)

\* C4: in live mode DeleteTag is called once for each tag of the delete-list, in
\* its order, whatever calls fail; a failed call's error is in Errors with the
\* tag's name and its tag is not in DeletedTags, a successful call's tag is in
\* DeletedTags; no failure ends the loop, and Clean returns the result and no
\* error.
C4_LiveDeletes ==
    ~cfg.dryRun =>
        /\ Len(deleteCalls) <= Len(tagsToDelete)
        /\ \A i \in 1..Len(deleteCalls) : deleteCalls[i] = tagsToDelete[i].Name
        /\ Len(deleteRets) <= Len(deleteCalls)
        /\ Len(deleteCalls) <= Len(deleteRets) + 1
        /\ result.DeletedTags = DeletedOf(Len(deleteRets))
        /\ result.Errors = ErrorsOf(Len(deleteRets))
        /\ (pc = "done" /\ ret.op = "Clean" /\ ClassificationOver) =>
              /\ Len(deleteCalls) = Len(tagsToDelete)
              /\ Len(deleteRets) = Len(tagsToDelete)
              /\ ret.err = NoErr
              /\ ret.val = result

\* A live run has returned after three DeleteTag calls of which the first and
\* the third failed.
C4_Witness ==
    /\ ~cfg.dryRun
    /\ pc = "done"
    /\ Len(deleteRets) = 3
    /\ deleteRets[1] # NoErr
    /\ deleteRets[2] = NoErr
    /\ deleteRets[3] # NoErr

\* C5: when ListTags fails inside Clean, Clean returns a fatal error and no
\* result, nothing is classified and DeleteTag is never called.
C5_ListFailureFatal ==
    (listRet.done /\ listRet.err # NoErr) =>
        /\ pc = "done"
        /\ ret.op = "Clean"
        /\ ret.err = [kind |-> "wrapped", msg |-> "failed to list tags", err |-> listRet.err]
        /\ ret.val = NilVal
        /\ tags = <<>> /\ tagsToKeep = <<>> /\ tagsToDelete = <<>>
        /\ deleteCalls = <<>>

\* The listing has failed on the second page, after a first page with tags.
C5_Witness ==
    /\ listRet.done /\ listRet.err # NoErr
    /\ Len(pageReqs) = 2
    /\ pagesGot # <<>> /\ pagesGot[1].Results # <<>>
    /\ pc = "done"

Is429(o) == ~o.failed /\ o.StatusCode = 429

\* C6: one doRequest call sends at most 6 requests; it sends another one only
\* after a 429; it fails with RateLimited exactly when the first response and
\* all 5 retries were 429, returning no response; a non-429 response is
\* returned to the caller as it is.
C6_RetryOn429 ==
    /\ Len(resps) <= 6
    /\ \A i \in 1..(Len(resps) - 1) : Is429(resps[i])
    /\ (resps # <<>> /\ Is429(Last(resps)) /\ Len(resps) < 6) => dr.stage \in {"sleep", "retry"}
    /\ (dr.stage = "ret" /\ resps # <<>>) =>
          /\ (Len(resps) = 6 /\ Is429(Last(resps))) =>
                (dr.err = [kind |-> "RateLimited"] /\ dr.resp = NoResp)
          /\ (~Last(resps).failed /\ ~Is429(Last(resps))) =>
                (dr.err = NoErr /\ dr.resp = Last(resps))
    /\ ErrorsIs(dr.err, [kind |-> "RateLimited"]) =>
          (Len(resps) = 6 /\ \A i \in 1..6 : Is429(resps[i]))

\* A call has failed with RateLimited after six 429 responses.
C6_Witness ==
    /\ dr.stage = "ret"
    /\ dr.err = ErrRateLimited
    /\ Len(resps) = 6

\* The error ListTags, DeleteTag and GetRepository give for a response with a
\* non-success status s other than 429, at the endpoint url.
MappedError(s, url) ==
    IF s = 401 THEN [kind |-> "Unauthorized"]
    ELSE IF s = 404 THEN [kind |-> "NotFound"]
    ELSE [kind |-> "APIError", StatusCode |-> s, Endpoint |-> url, Message |-> ErrorBody(s)]

\* doRequest has returned a response whose status is neither 2xx nor 429.
NonSuccessReturned ==
    /\ dr.stage = "ret" /\ dr.err = NoErr
    /\ dr.resp.StatusCode < 200 \/ dr.resp.StatusCode > 299
    /\ dr.resp.StatusCode # 429

\* C7: a response with a non-2xx status other than 429 ends the call (if it is
\* the first response, one request was sent) and ListTags, DeleteTag and
\* GetRepository return for it Unauthorized (401), NotFound (404) or else an
\* APIError with the status, the endpoint and the body; DeleteTag succeeds
\* exactly on 200 and 204.
C7_StatusMapping ==
    [][ (dr.stage = "ret" /\ op' = "none") =>
          /\ NonSuccessReturned =>
                /\ ~Is429(Last(resps)) /\ \A i \in 1..(Len(resps) - 1) : Is429(resps[i])
                /\ op = "ListTags" =>
                      listRet'.err = MappedError(dr.resp.StatusCode,
                          [path |-> "/repositories/%s/tags/", page |-> Last(pageReqs),
                           page_size |-> 100])
                /\ op = "DeleteTag" =>
                      Last(deleteRets') = MappedError(dr.resp.StatusCode,
                          [path |-> "/repositories/%s/tags/%s/", tag |-> Last(deleteCalls)])
                /\ op = "GetRepository" =>
                      ret'.err = MappedError(dr.resp.StatusCode, [path |-> "/repositories/%s/"])
          /\ op = "DeleteTag" =>
                (Last(deleteRets') = NoErr <=>
                    (dr.err = NoErr /\ dr.resp.StatusCode \in {200, 204}))
      ]_vars

\* DeleteTag has returned an APIError for a 500 response.
C7_Witness ==
    /\ deleteRets # <<>>
    /\ Last(deleteRets).kind = "APIError"
    /\ Last(deleteRets).StatusCode = 500
    /\ Last(deleteRets).Endpoint.tag = Last(deleteCalls)

\* C8: when the registry answers the login with 401, Authenticate fails with
\* an error that is Unauthorized.
C8_LoginRejectedIsUnauthorized ==
    [][ (op = "Authenticate" /\ dr.stage = "ret" /\ dr.err = NoErr
         /\ dr.resp.StatusCode = 401 /\ op' = "none")
        => ErrorsIs(ret'.err, ErrUnauthorized) ]_vars

\* C9: ListTags requests the pages 1, 2, ... one at a time, goes to the next
\* page only after a page with a non-empty next marker, and returns after the
\* first page whose marker is absent or empty the results of all the pages it
\* fetched, in page order.
C9_Pagination ==
    /\ \A i \in 1..Len(pageReqs) : pageReqs[i] = i
    /\ op = "ListTags" =>
          /\ Len(pageReqs) = Len(pagesGot) + 1
          /\ page = Len(pageReqs)
          /\ allTags = PagesConcat(Len(pagesGot))
          /\ \A i \in 1..Len(pagesGot) : pagesGot[i].Next \notin {<<>>, <<"">>}
    /\ (listRet.done /\ listRet.err = NoErr /\ deleteCalls = <<>>) =>
          /\ Len(pageReqs) = Len(pagesGot)
          /\ listRet.tags = PagesConcat(Len(pagesGot))
          /\ Last(pagesGot).Next \in {<<>>, <<"">>}
          /\ \A i \in 1..(Len(pagesGot) - 1) : pagesGot[i].Next \notin {<<>>, <<"">>}

\* ListTags has returned [A, B, C] for the pages [A, B] (with a next marker)
\* and [C] (without one).
C9_Witness ==
    /\ listRet.done /\ listRet.err = NoErr
    /\ Len(pagesGot) = 2
    /\ pagesGot[1].Results = <<TagA, TagB>> /\ pagesGot[1].Next = <<"next">>
    /\ pagesGot[2].Results = <<TagC>> /\ pagesGot[2].Next = <<>>
    /\ listRet.tags = <<TagA, TagB, TagC>>

\* C10: when a page request fails, ListTags returns no tags, the error of
\* doRequest as it is, and requests no further page.
C10_NoPartialListing ==
    /\ [][ (op = "ListTags" /\ dr.stage = "ret" /\ dr.err # NoErr /\ op' = "none") =>
              /\ listRet'.done
              /\ listRet'.err = dr.err
              /\ listRet'.tags = <<>>
              /\ pageReqs' = pageReqs ]_vars
    /\ [][ (op = "ListTags" /\ op' = "none" /\ listRet'.err # NoErr) =>
              (listRet'.tags = <<>> /\ pageReqs' = pageReqs) ]_vars
    /\ [][ (listRet.done /\ listRet.err # NoErr) => pageReqs' = pageReqs ]_vars

\* ListTags has returned no tags and a network error after a first page with
\* tags.
C10_Witness ==
    /\ listRet.done
    /\ ErrorsIs(listRet.err, ErrNetworkError)
    /\ listRet.tags = <<>>
    /\ pagesGot # <<>> /\ pagesGot[1].Results # <<>>

----------------------------------------------------------------------------
\* C11: a count policy built with count N from a list of M tags keeps exactly
\* min(N, M) tags of the list, those whose names are the first N names of the
\* list; ShouldKeep answers by that keep-set for every tag asked about later.
C11_CountPolicy ==
    (call.fn = "CountShouldKeep" /\ out.done) =>
        LET N == call.count
            M == Len(call.sorted)
            firstN == {call.sorted[i].Name : i \in {k \in 1..M : k <= N}}
        IN  /\ Cardinality({t \in Range(call.sorted) : ShouldKeep(out.policy, t, now)})
                  = (IF N < M THEN N ELSE M)
            /\ \A t \in LibTags : ShouldKeep(out.policy, t, now) <=> t.Name \in firstN
            /\ out.keep <=> call.tag.Name \in firstN

\* A policy with count 2 over <<C, B, A>> was asked about a tag named A that
\* is not in its list and about B: it keeps B.
C11_Witness ==
    /\ call.fn = "CountShouldKeep"
    /\ out.done
    /\ call.count = 2
    /\ call.sorted = <<TagC, TagB, TagA>>
    /\ call.tag = TagB
    /\ out.keep

\* C12: a days policy with D days keeps a tag iff its lastUpdated is strictly
\* after now minus D days; a tag updated exactly at the cutoff is not kept.
C12_DaysPolicy ==
    (call.fn = "DaysShouldKeep" /\ out.done) =>
        /\ out.keep <=> call.tag.LastUpdated > now - call.days
        /\ call.tag.LastUpdated = now - call.days => ~out.keep

\* A policy with 3 days was asked about a tag updated exactly 3 days ago and
\* did not keep it.
C12_Witness ==
    /\ call.fn = "DaysShouldKeep"
    /\ out.done
    /\ call.days = MaxDays
    /\ call.tag.LastUpdated = now - MaxDays
    /\ ~out.keep

\* C13: a composite policy in OR mode keeps a tag iff some sub-policy keeps
\* it, in AND mode iff every sub-policy keeps it, for every combination of
\* always-keep and always-reject sub-policies; with no sub-policy it keeps
\* every tag in both modes.
C13_CompositePolicy ==
    (call.fn = "CompositeShouldKeep" /\ out.done) =>
        LET n == Len(call.policies)
            keeps(i) == call.policies[i] = AlwaysKeep
        IN  /\ n = 0 => out.keep
            /\ (n > 0 /\ call.mode = PolicyModeOR) => (out.keep <=> \E i \in 1..n : keeps(i))
            /\ (n > 0 /\ call.mode = PolicyModeAND) => (out.keep <=> \A i \in 1..n : keeps(i))

\* An AND composite of an always-keep and an always-reject policy did not
\* keep the tag.
C13_Witness ==
    /\ call.fn = "CompositeShouldKeep"
    /\ out.done
    /\ call.mode = PolicyModeAND
    /\ call.policies = <<AlwaysKeep, AlwaysReject>>
    /\ ~out.keep

\* The name of a tag is a version for the sorter.
IsVersioned(sorter, tag) ==
    SemverIsValid(NormalizeVersion(StripPrefix(sorter, tag.Name)))

\* The number a digit string writes.
RECURSIVE ToNat(_)
ToNat(d) == IF d = <<>> THEN 0 ELSE 10 * ToNat(SubSeq(d, 1, Len(d) - 1)) + (d[Len(d)] - 48)

\* Tag a does not come after tag b in semantic-version precedence, by the
\* numbers major, minor, patch and then the pre-release.
NotOlder(sorter, a, b) ==
    LET va == SemverParse(NormalizeVersion(StripPrefix(sorter, a.Name)))
        vb == SemverParse(NormalizeVersion(StripPrefix(sorter, b.Name)))
        ka == <<ToNat(va.major), ToNat(va.minor), ToNat(va.patch)>>
        kb == <<ToNat(vb.major), ToNat(vb.minor), ToNat(vb.patch)>>
    IN  \/ ka[1] > kb[1]
        \/ ka[1] = kb[1] /\ ka[2] > kb[2]
        \/ ka[1] = kb[1] /\ ka[2] = kb[2] /\ ka[3] > kb[3]
        \/ ka = kb /\ ComparePrerelease(va.prerelease, vb.prerelease) >= 0

\* C14: the version-aware sorter returns a permutation of its input with the
\* versioned tags first, in descending precedence (2.0.0, 1.10.0, 1.9.0),
\* then the other tags in descending string order; "latest" comes after all
\* versioned tags and "develop-1.2.3" is versioned under "^develop-".
C14_SemverSort ==
    (call.fn = "Sort" /\ call.sorter.kind = "semver" /\ out.done) =>
        \A k \in 1..Len(out.vals) :
            LET r == out.vals[k]
                srt == call.sorter
                at(n) == CHOOSE i \in 1..Len(r) : r[i].Name = n
                has(n) == \E i \in 1..Len(r) : r[i].Name = n
            IN  /\ Len(r) = Len(call.tags)
                /\ Range(r) = Range(call.tags)
                /\ \A i, j \in 1..Len(r) :
                      i < j =>
                        /\ IsVersioned(srt, r[j]) => IsVersioned(srt, r[i])
                        /\ IsVersioned(srt, r[j]) => NotOlder(srt, r[i], r[j])
                        /\ ~IsVersioned(srt, r[i]) => ~StrLess(r[i].Name, r[j].Name)
                /\ (has(Name200) /\ has(Name1100)) => at(Name200) < at(Name1100)
                /\ (has(Name1100) /\ has(Name190)) => at(Name1100) < at(Name190)
                /\ has(NameLatest) => at(NameLatest) > Cardinality({i \in 1..Len(r) : IsVersioned(srt, r[i])})
                /\ has(NameLatest) => ~IsVersioned(srt, r[at(NameLatest)])
                /\ (has(NameDevelop123) /\ srt.stripPrefixPattern = PrefixPattern(DevelopPrefix))
                      => IsVersioned(srt, r[at(NameDevelop123)])

\* With "^develop-" stripped, <<latest, develop-1.2.3, 1.10.0>> was sorted to
\* <<1.10.0, develop-1.2.3, latest>>.
C14_Witness ==
    /\ call.fn = "Sort"
    /\ out.done
    /\ call.sorter = SemverSorter(PrefixPattern(DevelopPrefix))
    /\ NamesOf(call.tags) = <<NameLatest, NameDevelop123, Name1100>>
    /\ NamesOf(out.vals[1]) = <<Name1100, NameDevelop123, NameLatest>>

\* Tags a and b compare equal under the sorter's ordering.
SortsEqual(sorter, a, b) ==
    IF sorter.kind = "semver"
    THEN \/ /\ IsVersioned(sorter, a)
            /\ IsVersioned(sorter, b)
            /\ ~SemverLess(sorter, a, b)
            /\ ~SemverLess(sorter, b, a)
         \/ ~IsVersioned(sorter, a) /\ ~IsVersioned(sorter, b) /\ a.Name = b.Name
    ELSE a.Name = b.Name

\* C15: both sorters are stable and deterministic: tags that compare equal
\* keep their relative input order, and two sorts of the same input return
\* the same sequence.
C15_SortStable ==
    (call.fn = "Sort" /\ out.done) =>
        /\ \A k \in 1..Len(out.vals) :
              LET r == out.vals[k]
                  pos(t) == CHOOSE i \in 1..Len(r) : r[i] = t
              IN  \A i, j \in 1..Len(call.tags) :
                      (i < j /\ SortsEqual(call.sorter, call.tags[i], call.tags[j]))
                          => pos(call.tags[i]) < pos(call.tags[j])
        /\ Len(out.vals) = 2 => out.vals[1] = out.vals[2]

\* C16: a pattern filter with invert=false matches exactly the names its
\* pattern matches, with invert=true exactly the others; a composite filter
\* matches a name iff every member matches it, and every name when it has no
\* member.
C16_Filters ==
    (call.fn = "Matches" /\ out.done) =>
        LET f == call.filter
            accepts(g) == IF g.invert THEN call.name \notin g.pattern
                          ELSE call.name \in g.pattern
        IN  /\ f.kind = "regex" => (out.matches <=> accepts(f))
            /\ f.kind = "composite" =>
                  /\ out.matches <=> \A i \in 1..Len(f.filters) : accepts(f.filters[i])
                  /\ Len(f.filters) = 0 => out.matches

\* A composite of an include filter that matches the name and an exclude
\* filter that matches it too did not match it.
C16_Witness ==
    /\ call.fn = "Matches"
    /\ out.done
    /\ call.name = NameA
    /\ call.filter = CompositeFilter(<<RegexFilter({NameA, NameB}, FALSE),
                                       RegexFilter({NameA}, TRUE)>>)
    /\ ~out.matches

----------------------------------------------------------------------------
\* The HTTP requests of the doRequest call in progress that reached the
\* registry: those a response came back for.
Answered == {k \in 1..Len(resps) : ~resps[k].failed}

\* C18: every HTTP request sent through the client is preceded by the
\* acquisition of one limiter permit, so the requests sent never outnumber
\* the permits acquired.
C18_RequestsWithinPermits == Cardinality(Answered) <= permits

\* C19: when the context is cancelled before or while doRequest waits for a
\* limiter permit, the call fails and no HTTP request is sent.
C19_CancelledWaitSendsNothing ==
    [][(dr.stage = "wait" /\ ctxDone /\ dr' # dr) =>
          /\ dr'.stage = "ret"
          /\ dr'.err # NoErr
          /\ dr'.resp = NoResp
          /\ resps' = <<>>
          /\ everSent' = everSent]_vars

\* DeleteTag's doRequest returned the limiter's error after the context had
\* been cancelled, without a call of httpClient.Do.
C19_Witness ==
    /\ op = "DeleteTag"
    /\ ctxDone
    /\ dr.stage = "ret"
    /\ dr.err = Wrap("rate limiter error", [kind |-> "context"])
    /\ resps = <<>>
    /\ permits = 0

\* C20: a connection failure of httpClient.Do, on the first attempt or on a
\* retry, ends doRequest at once with NetworkError: it is the last exchange
\* of the call.
C20_ConnFailureNotRetried ==
    \A k \in 1..Len(resps) :
        resps[k].failed =>
            /\ k = Len(resps)
            /\ dr.stage = "ret"
            /\ dr.resp = NoResp
            /\ ErrorsIs(dr.err, ErrNetworkError)

\* A retry after two 429 answers failed at connection level and doRequest
\* returned NetworkError.
C20_Witness ==
    /\ Len(resps) = 3
    /\ Is429(resps[1])
    /\ Is429(resps[2])
    /\ resps[3].failed
    /\ dr.stage = "ret"
    /\ ErrorsIs(dr.err, ErrNetworkError)

----------------------------------------------------------------------------
\* run ended with the error of a pattern that does not compile.
EndedWithPatternError ==
    /\ run.pc = "exit"
    /\ ErrorsIs(run.err, RegexpError)

\* C17: in a run that ends with a configuration error (a tag pattern, exclude
\* pattern or strip-prefix pattern that does not compile), no HTTP request
\* has been sent: the error is found before the first network call.
C17_ConfigErrorBeforeNetwork == EndedWithPatternError => ~everSent

----------------------------------------------------------------------------
\* The Cleaner of the end-to-end example: no filter, the lexicographical
\* sorter, OR(days = 90, count = 1 built over [C, B, A]).
ExampleConfig(dryRun) ==
    [filter |-> NilFilter,
     policy |-> NewCompositePolicy(PolicyModeOR,
                    <<NewDaysRetentionPolicy(90),
                      NewCountRetentionPolicy(1, <<TagC, TagB, TagA>>)>>),
     sorter |-> LexicographicalSorter,
     dryRun |-> dryRun]

\* Clean has returned a result for the example: it fetched A, B and C (in any
\* order) on 2024-06-10.
ExampleCleaned ==
    /\ cfg \in {ExampleConfig(TRUE), ExampleConfig(FALSE)}
    /\ now = 1622
    /\ pc = "done" /\ ret.op = "Clean" /\ ret.err = NoErr
    /\ Len(listRet.tags) = 3
    /\ Range(listRet.tags) = {TagA, TagB, TagC}

\* C21: in the end-to-end example (A updated 2024-06-01 of size 100, B and C
\* updated 2020-01-01 of sizes 200 and 300, no filter, descending names,
\* OR(days = 90 at 2024-06-10, count = 1 over [C, B, A])) Clean keeps A and C,
\* puts B on the delete-list, and reports KeptTags = 2 and ReclaimedSize = 200.
C21_EndToEnd ==
    ExampleCleaned =>
        /\ tags = <<TagC, TagB, TagA>>
        /\ Range(tagsToKeep) = {TagA, TagC}
        /\ Len(tagsToKeep) = 2
        /\ tagsToDelete = <<TagB>>
        /\ ret.val.KeptTags = 2
        /\ ret.val.ReclaimedSize = 200
        /\ ret.val.TotalTags = 3
        /\ ret.val.TotalSize = 600
        /\ cfg.dryRun => ret.val.DeletedTags = <<NameB>>
        /\ ~cfg.dryRun => deleteCalls = <<NameB>>

\* A live run of the example, which fetched [A, B, C], has returned after
\* deleting B.
C21_Witness ==
    /\ ExampleCleaned
    /\ ~cfg.dryRun
    /\ listRet.tags = <<TagA, TagB, TagC>>
    /\ ret.val.DeletedTags = <<NameB>>
    /\ ret.val.KeptTags = 2

----------------------------------------------------------------------------
\* The count policy of the policy run has built: the policy itself, or the
\* count policy among the policies of the composite.
CountPolicyOf(p) ==
    IF p.kind = "count" THEN p ELSE CHOOSE q \in Range(p.policies) : q.kind = "count"

\* Clean, called by run with --keep-count set, has classified the tags of its
\* own fetch.
RunClassified ==
    /\ run.pc \in {"clean", "exit"}
    /\ run.flags.keepCount > 0
    /\ ClassificationOver

\* C22: in a run with --keep-count N the count policy decides by the first N
\* names of run's own fetch (sortedTags), whatever Clean's later fetch returned:
\* a tag that only the later fetch returned is not kept by the count policy,
\* wherever it sorts in the classified list, and with no other policy it goes
\* to the delete-list; when both fetches gave the same post-filter tags, the
\* count policy keeps exactly min(N, post-filter count) of them.
C22_KeepSetFromFirstFetch ==
    RunClassified =>
        LET N == run.flags.keepCount
            cp == CountPolicyOf(cfg.policy)
            firstN == {run.sortedTags[i].Name : i \in 1..Min(N, Len(run.sortedTags))}
            keptByCount == {t \in Range(tags) : ShouldKeep(cp, t, now)}
            added == Range(tags) \ Range(run.sortedTags)
        IN  /\ \A t \in Range(tags) : ShouldKeep(cp, t, now) <=> t.Name \in firstN
            /\ \A t \in added : ~ShouldKeep(cp, t, now)
            /\ run.flags.keepDays = 0 => added \subseteq Range(tagsToDelete)
            /\ Range(tags) = Range(run.sortedTags) =>
                  Cardinality(keptByCount) = Min(N, Len(tags))

\* A live run with --keep-count 1 and no --keep-days fetched B and A, built the
\* keep-set from [B, A], and Clean then fetched C, B and A: C, the first tag of
\* the classified list, was put on the delete-list and DeleteTag was called
\* for it.
C22_Witness ==
    /\ RunClassified
    /\ run.flags.keepCount = 1
    /\ run.flags.keepDays = 0
    /\ run.sortedTags = <<TagB, TagA>>
    /\ tags = <<TagC, TagB, TagA>>
    /\ tagsToKeep = <<TagB>>
    /\ tagsToDelete = <<TagC, TagA>>
    /\ deleteCalls # <<>> /\ deleteCalls[1] = NameC

\* A run with --keep-count 1 whose two fetches returned the same three tags has
\* kept one of them.
C22_WitnessUnchanged ==
    /\ RunClassified
    /\ run.flags.keepCount = 1
    /\ run.flags.keepDays = 0
    /\ Range(run.sortedTags) = RepoTags
    /\ Range(tags) = RepoTags
    /\ tagsToKeep = <<TagC>>
    /\ run.pc = "exit"

----------------------------------------------------------------------------
\* Clean's own ListTags has returned tags (possibly none) and no error.
Fetched == listRet.done /\ listRet.err = NoErr

\* Clean has returned a result with no deletion: no DeleteTag call was made,
\* and the result names no deleted tag and no error.
ReturnedWithoutDeletion ==
    /\ pc = "done"
    /\ ret.op = "Clean"
    /\ ret.err = NoErr
    /\ ret.val = result
    /\ ret.val.DeletedTags = <<>>
    /\ ret.val.Errors = <<>>
    /\ deleteCalls = <<>>
    /\ op = "none"

\* C23: Clean returns a result, without an error, a deleted tag or a DeleteTag
\* call, as soon as a stage has nothing to work on: when no tag was fetched,
\* when the filter let no tag through (nothing is sorted or classified then),
\* and when the delete-list is empty after classification; when the filter
\* rejected every tag the result has TotalTags and TotalSize of all fetched
\* tags and FilteredTags = 0.
C23_EmptyStagesReturn ==
    /\ (Fetched /\ listRet.tags = <<>>) =>
          /\ ReturnedWithoutDeletion
          /\ ret.val = EmptyResult
          /\ tags = <<>> /\ tagsToKeep = <<>> /\ tagsToDelete = <<>>
    /\ (Fetched /\ listRet.tags # <<>> /\ PostFilterSet = {}) =>
          /\ ReturnedWithoutDeletion
          /\ tags = <<>> /\ tagsToKeep = <<>> /\ tagsToDelete = <<>>
          /\ ret.val.TotalTags = Len(listRet.tags)
          /\ ret.val.TotalSize = SizeOfSet(Range(listRet.tags))
          /\ ret.val.FilteredTags = 0
          /\ ret.val.KeptTags = 0
          /\ ret.val.ReclaimedSize = 0
    /\ (ClassificationOver /\ tagsToDelete = <<>> /\ pc # "classify") =>
          /\ ReturnedWithoutDeletion
          /\ ret.val.KeptTags = Len(tags)
          /\ ret.val.ReclaimedSize = 0

\* A live Clean whose filter rejected the three fetched tags has returned
\* TotalTags = 3, TotalSize = 600 and FilteredTags = 0.
C23_Witness ==
    /\ ~cfg.dryRun
    /\ Fetched
    /\ Len(listRet.tags) = 3
    /\ PostFilterSet = {}
    /\ pc = "done"
    /\ ret.val.TotalTags = 3
    /\ ret.val.TotalSize = 600
    /\ ret.val.FilteredTags = 0

----------------------------------------------------------------------------
\* The delays of the spec's retry policy, in seconds.
BackoffDelays == <<1, 2, 4, 8, 16>>

RECURSIVE SumSeq(_)
SumSeq(s) == IF s = <<>> THEN 0 ELSE Head(s) + SumSeq(Tail(s))

\* C24: in one doRequest call the sleep before the i-th retry lasts 2^(i-1)
\* seconds (1, 2, 4, 8, 16 in this order), a retry is sent only after its
\* sleep, and a call that ends with RateLimited has slept 31 seconds in all.
C24_BackoffDelays ==
    /\ Len(sleeps) <= 5
    /\ \A i \in 1..Len(sleeps) : sleeps[i] = 2 ^ (i - 1)
    /\ sleeps = SubSeq(BackoffDelays, 1, Len(sleeps))
    /\ resps # <<>> =>
          IF dr.stage = "retry" THEN Len(sleeps) = Len(resps)
          ELSE Len(sleeps) = Len(resps) - 1
    /\ resps = <<>> => sleeps = <<>>
    /\ (dr.stage = "ret" /\ dr.err = ErrRateLimited) =>
          /\ sleeps = BackoffDelays
          /\ SumSeq(sleeps) = 31

\* A call has ended with RateLimited after sleeping 1, 2, 4, 8 and 16 seconds.
C24_Witness ==
    /\ dr.stage = "ret"
    /\ dr.err = ErrRateLimited
    /\ sleeps = <<1, 2, 4, 8, 16>>
    /\ Len(resps) = 6

----------------------------------------------------------------------------
\* C25: a cancellation during a backoff sleep does not end the sleep or the
\* call: the sleep lasts its full time (16 seconds at most) and the call has
\* not failed when it is over; what follows the sleep fails the call, which
\* does not sleep again.
C25_SleepNotInterruptible ==
    /\ [][(ctxDone /\ dr.stage = "sleep" /\ dr' # dr) =>
             /\ sleeps' = Append(sleeps, 2 ^ dr.i)
             /\ Last(sleeps') <= 16
             /\ dr'.stage = "retry"
             /\ dr'.err = NoErr
             /\ resps' = resps]_vars
    /\ [][(ctxDone /\ dr.stage = "retry" /\ dr' # dr) =>
             /\ dr'.stage = "ret"
             /\ dr'.err # NoErr
             /\ dr'.resp = NoResp
             /\ sleeps' = sleeps]_vars
    /\ [][(dr.stage = "sleep" /\ ~ctxDone /\ ctxDone') => dr' = dr]_vars

\* The context was cancelled while a DeleteTag call was in its fifth backoff
\* sleep, of 16 seconds.
C25_Witness ==
    /\ ctxDone
    /\ op = "DeleteTag"
    /\ dr.stage = "sleep"
    /\ dr.i = 4
    /\ sleeps = <<1, 2, 4, 8>>

----------------------------------------------------------------------------
\* C26: a days policy built with 0 days is disabled: ShouldKeep returns false
\* for every tag, whatever its lastUpdated, also when it is later than now.
C26_DaysZeroDisabled ==
    (call.fn = "DaysShouldKeep" /\ out.done /\ call.days = 0) => ~out.keep

----------------------------------------------------------------------------
\* C27: when the registry answers a login, a tags page or a repository request
\* with status 200 and the call fails all the same (the payload cannot be
\* decoded), the error of the call is InvalidResponse.
C27_MalformedIsInvalidResponse ==
    [][ (dr.stage = "ret" /\ dr.err = NoErr /\ dr.resp.StatusCode = StatusOK
         /\ op' = "none") =>
          /\ (op \in {"Authenticate", "GetRepository"} /\ ret'.err # NoErr) =>
                ErrorsIs(ret'.err, ErrInvalidResponse)
          /\ (op = "ListTags" /\ listRet'.err # NoErr) =>
                ErrorsIs(listRet'.err, ErrInvalidResponse) ]_vars

----------------------------------------------------------------------------
\* C28: the limiter refills at 5 permits per second: once back-to-back calls
\* through one client have drained the bucket (its burst of calls has been
\* admitted), each further back-to-back call is admitted 200 ms after the one
\* before it, 5 calls per second.
C28_FivePerSecond ==
    (call.fn = "Wait" /\ out.done /\ \A k \in 1..Len(out.gaps) : out.gaps[k] = 0) =>
        \A i \in call.limiter.burst..(Len(out.admitted) - 1) :
            out.admitted[i + 1] - out.admitted[i] = Second \div 5

----------------------------------------------------------------------------
\* The total size of the tags of the delete-list that names names.
SizeOfNamed(names) == SizeOfSet({t \in Range(tagsToDelete) : t.Name \in Range(names)})

\* C29: in live mode ReclaimedSize is the sum of the sizes of the delete-list
\* from before the first DeleteTag call to the return of Clean, whatever the
\* calls return: it counts the tags whose deletion failed, so it is more than
\* the total size of the tags in DeletedTags as soon as a deletion has failed.
C29_ReclaimedSizeOfDeleteList ==
    (~cfg.dryRun /\ ClassificationOver /\ pc \in {"delete", "done"}) =>
        /\ result.ReclaimedSize = SumSizes(tagsToDelete)
        /\ SizeOfNamed(result.DeletedTags) <= result.ReclaimedSize
        /\ (\E i \in 1..Len(deleteRets) : deleteRets[i] # NoErr) =>
              SizeOfNamed(result.DeletedTags) < result.ReclaimedSize
        /\ pc = "done" => ret.val.ReclaimedSize = SumSizes(tagsToDelete)

\* A live Clean has returned after the deletion of C failed and that of B
\* succeeded: ReclaimedSize is 500, DeletedTags names B alone (200).
C29_Witness ==
    /\ ~cfg.dryRun
    /\ pc = "done"
    /\ tagsToDelete = <<TagC, TagB>>
    /\ deleteRets # <<>> /\ deleteRets[1] # NoErr
    /\ ret.val.DeletedTags = <<NameB>>
    /\ ret.val.ReclaimedSize = 500

----------------------------------------------------------------------------
\* The next-page marker is absent or empty.
FinalMarker(next) == next \in {<<>>, <<"">>}

\* This step is ListTags taking the return of doRequest for a page.
ListTagsTakesPage ==
    /\ op = "ListTags"
    /\ dr.stage = "ret"
    /\ op' # op \/ page' # page

\* C30: ListTags requests the pages 1, 2, 3, ... each once; the step that
\* decodes a page whose next marker is absent or empty returns, after exactly
\* as many requests as pages decoded; the step that decodes a page with any
\* other marker, whatever it says, requests the page numbered one more and
\* does not return; a page request that fails returns its error.  So ListTags
\* returns only after a failed request or a page without marker: as long as
\* every page carries a marker, it has not returned.
C30_ListTagsTermination ==
    /\ [](\A i \in 1..Len(pageReqs) : pageReqs[i] = i)
    /\ [](op = "ListTags" =>
             /\ ~listRet.done
             /\ Len(pageReqs) = Len(pagesGot) + 1
             /\ \A i \in 1..Len(pagesGot) : ~FinalMarker(pagesGot[i].Next))
    /\ [][(ListTagsTakesPage /\ pagesGot' # pagesGot) =>
             IF FinalMarker(Last(pagesGot').Next)
             THEN /\ op' = "none"
                  /\ listRet'.done /\ listRet'.err = NoErr
                  /\ pageReqs' = pageReqs
                  /\ Len(pageReqs') = Len(pagesGot')
             ELSE /\ op' = "ListTags"
                  /\ ~listRet'.done
                  /\ page' = page + 1
                  /\ pageReqs' = Append(pageReqs, page + 1)]_vars
    /\ [][(ListTagsTakesPage /\ pagesGot' = pagesGot) =>
             /\ op' = "none"
             /\ listRet'.done /\ listRet'.err # NoErr
             /\ pageReqs' = pageReqs]_vars
    /\ [][(op = "ListTags" /\ op' = "none" /\ listRet'.err = NoErr) =>
             FinalMarker(Last(pagesGot').Next)]_vars

\* Every page so far carried a marker (the last one "page=1") and ListTags has
\* not returned: it has requested the page after page MaxPages.
C30_Witness ==
    /\ op = "ListTags"
    /\ ~listRet.done
    /\ Len(pagesGot) = MaxPages
    /\ pagesGot[MaxPages].Next = <<"page=1">>
    /\ \A i \in 1..MaxPages : ~FinalMarker(pagesGot[i].Next)
    /\ pageReqs = [i \in 1..(MaxPages + 1) |-> i]
    /\ page = MaxPages + 1

----------------------------------------------------------------------------
\* A composite policy without sub-policies.
EmptyComposite == cfg.policy.kind = "composite" /\ cfg.policy.policies = <<>>

\* C31: with no policy (nil) Clean keeps no tag: every post-filter tag goes to
\* the delete-list, in the order of the sorted tags, and a live run calls
\* DeleteTag for each of them; with a composite policy without sub-policies
\* every post-filter tag is kept, the delete-list is empty and DeleteTag is
\* never called.
C31_NilPolicyDeletesAll ==
    /\ cfg.policy = NilPolicy =>
          /\ tagsToKeep = <<>>
          /\ ClassificationOver =>
                /\ tagsToDelete = tags
                /\ Range(tagsToDelete) = PostFilterSet
                /\ result.KeptTags = 0
          /\ (ClassificationOver /\ ~cfg.dryRun /\ pc = "done") =>
                /\ deleteCalls = NamesOf(tags)
                /\ Len(deleteRets) = Len(tags)
    /\ EmptyComposite =>
          /\ tagsToDelete = <<>>
          /\ deleteCalls = <<>>
          /\ ClassificationOver =>
                /\ tagsToKeep = tags
                /\ Range(tagsToKeep) = PostFilterSet
          /\ (ClassificationOver /\ pc = "done") =>
                /\ ret.val.KeptTags = Len(tags)
                /\ ret.val.DeletedTags = <<>>
                /\ ret.val.ReclaimedSize = 0

\* A live Clean without a policy has returned after calling DeleteTag for
\* each of the three fetched tags, A (updated nine days ago) among them.
C31_Witness ==
    /\ cfg.policy = NilPolicy
    /\ ~cfg.dryRun
    /\ pc = "done"
    /\ Len(tags) = 3
    /\ tagsToKeep = <<>>
    /\ Len(deleteCalls) = 3
    /\ \E i \in 1..3 : deleteCalls[i] = NameA

\* A live Clean with a composite policy without sub-policies has returned
\* with the three fetched tags kept and no DeleteTag call.
C31_WitnessEmptyComposite ==
    /\ EmptyComposite
    /\ ~cfg.dryRun
    /\ pc = "done"
    /\ Len(tagsToKeep) = 3
    /\ deleteCalls = <<>>
====
